---- MODULE Spec2Model ----
(***************************************************************************)
(* Model of the dynamic agent system launcher (start_dynamic_system.py):   *)
(* main(), start_claude_with_config() and the Supervisor Loop that         *)
(* launches the host process, polls for the Restart Marker and for child   *)
(* exit, terminates the child's process group and relaunches it.           *)
(*                                                                         *)
(* The launcher is one sequential process; `pc` is its position.  The     *)
(* filesystem (marker files, temporary files), the child process, its      *)
(* process group and the operator are the environment.                     *)
(* SpecFair is the launcher under fair scheduling, for termination.         *)
(*                                                                         *)
(* Two more programs of the repository follow the launcher, each under its *)
(* own specification: the session logger (session_logger.py, SpecLog) and  *)
(* the SubagentStop restart hook (dynamic_agents/restart_hook.py,          *)
(* SpecHook).                                                              *)
(*                                                                         *)
(* After them come the Completion Detector (SpecDetect), the pre-tool-use  *)
(* dispatcher (SpecPolicy), the Session Directory Resolver (SpecResolve),  *)
(* the sub-agent-stop dispatcher with the Restart Coordinator and          *)
(* dynamic_agents/register_mcp.py (SpecStop), and the tool server          *)
(* dynamic_agents/mcp_server.py with tool_manager.py (SpecTools).          *)
(***************************************************************************)
EXTENDS Integers, Sequences, FiniteSets, TLC

VARIABLES
    pc,          \* position of the launcher in main / start_claude_with_config
    args,        \* main(): the parsed command line and the state of the prompt
                 \* file, until the first launch (nothing reads them later)
    task,        \* `task` parameter of start_claude_with_config (None or a string)
    headless,    \* `headless` parameter
    promptTmp,   \* the temporary system-prompt file exists
    taskTmp,     \* the temporary task file exists
    marker,      \* .restart_needed exists
    lock,        \* .primary_locked exists
    childState,  \* child_proc: "none" | "running" | "zombie" (exited, not reaped) | "reaped"
    childDisp,   \* how the child (group leader) treats SIGTERM: "die" | "ignore"
    retcode,     \* the returncode Popen reports for the child once it is dead
    desc,        \* a descendant in the child's process group: "none" | "die" | "ignore"
    oldAlive,    \* a member of an earlier child's process group is still alive
    ret_code,    \* local `ret_code` (result of child_proc.poll() at the loop top)
    launches,    \* argument vectors of the successful launch() calls, in order
    retval,      \* return value of start_claude_with_config
    doneBy,      \* how start_claude_with_config returned: "none"|"exit"|"interrupt"|"error"
    errAt,       \* which call raised: "none" | "launch" | "getpgid"
    exitStatus,  \* exit status of the launcher process
    \* ---- history: observations for the properties; the program reads none
    \* ---- of them (touches also bounds the environment)
    marker0,     \* .restart_needed existed before the launcher started
    lock0,       \* .primary_locked existed before the launcher started
    touches,     \* number of Restart Marker creations so far (a leftover marker is one)
    touchesRun,  \* ... of which while the child was running
    markerBorn,  \* number of launches so far when the marker last went absent -> present
    pending,     \* marker creations not yet consumed (since the last unlink)
    bursts,      \* number of absent -> present transitions of the marker
    detections,  \* number of polls that found the marker
    unlinks,     \* number of RESTART_MARKER.unlink calls
    cycleLog,    \* steps of the current (or last) restart cycle, in order
    sigLog,      \* signals the supervisor sent to the current child's group: <<signal, where>>
    \* ---- session_logger.py: the hook processes that call log_session_event
    logFile,     \* content of session_events.json
    flockHolder, \* the process holding the exclusive flock on it (0: nobody)
    lpc,         \* position of each process in log_session_event ("raised": an
                 \* exception left the call)
    levent,      \* local `event` of each process
    levents,     \* local `events` of each process
    stderrLog,   \* the [SESSION-LOG-FALLBACK] records printed to stderr
    ticks,       \* datetime.now(): number of calls made so far
    \* ---- history of the logger
    logFile0,    \* content of the file at the start or after the last clear
    logCalls,    \* the events of the calls made since then, in call order
    logFaults,   \* number of I/O failures since then
    logOverlap,  \* since then, a call started while another was in progress
    \* ---- dynamic_agents/restart_hook.py: one run of main()
    hpc,         \* position in main()
    stdin,       \* what the hook reads from standard input
    hook_data,   \* local `hook_data`
    task_result, \* local `task_result`
    scripts,     \* the restart scripts created, in order
    spawned,     \* the Popen calls made, in order
    hookExit,    \* exit status of the hook process
    hookErr,     \* which step of main() raised: "none"|"load"|"get"|"lower"|"script"|"popen"
    \* ---- the directories the generator writes to
    agentDefs,       \* number of *.md files in the agent-definitions directory
    generatedTools,  \* number of tool-server files in the generated-tools directory
    \* ---- Completion Detector
    dpc,           \* "off" | "ready" | "done"
    responseText,  \* the response text handed to detect
    dinput,        \* what responseText was composed of (read by the properties only)
    detected,      \* result of detect: None or Some([agentName, purpose])
    \* ---- pre-tool-use dispatcher
    ppc,           \* "off" | "read" | "append" | "check" | "done"
    pstdin,        \* standard input: [kind, tool_name, delegated]
    plock,         \* the Lock Marker exists when the dispatcher runs
    plogged,       \* the event was appended to the Event Store
    pexit,         \* exit code of the dispatcher (None while it runs)
    \* ---- Session Directory Resolver
    rpc,           \* "off" | "ready" | "done"
    sessionDirs,   \* the session directories under the logs root
    sessionId,     \* the ID handed to resolve
    resolved,      \* result of resolve: None or Some(directory)
    \* ---- sub-agent-stop dispatcher and Restart Coordinator
    spc,           \* "off" | "poll" | "detect" | "register" | "signal" | "done"
    srecord,       \* the post-tool-use record is in the Event Store: None or Some([marker])
    polls,         \* number of polls of the Event Store so far
    sdata,         \* the record the dispatcher works with: None (absent) or Some([marker])
    cstate,        \* state of the Restart Coordinator
    registration,  \* outcome of the registration step: "none"|"True"|"False"|"raised"
    regcall,       \* what register_mcp_servers found and the subprocess.run calls it made
    smarker,       \* .restart_needed exists
    sexit,         \* exit code of the dispatcher (None while it runs)
    \* ---- dynamic_agents/mcp_server.py and the tool files
    tpc,           \* "off" | "stopped" | "running"
    toolFiles,     \* [dir][stem]: None, or Some(st_mtime) of the file
    clock,         \* the file system's clock
    tools,         \* ToolRegistry.tools: [name]: None or Some(DynamicTool)
    sysModules,    \* the tool modules in sys.modules
    response,      \* the answer to the last request, None once a file has changed since
    added          \* the files created while the server was running (history)

vars == <<pc, args, task, headless, promptTmp, taskTmp, marker, lock, childState,
          childDisp, retcode, desc, oldAlive, ret_code, launches, retval,
          doneBy, errAt, exitStatus, marker0, lock0, touches, touchesRun, markerBorn,
          pending, bursts, detections, unlinks, cycleLog, sigLog>>

\* The launcher, the session logger and the restart hook are separate
\* programs; each is checked under its own specification, in which the
\* other two do not run.
logVars == <<logFile, flockHolder, lpc, levent, levents, stderrLog,
             ticks, logFile0, logCalls, logFaults, logOverlap>>
hookVars == <<hpc, stdin, hook_data, task_result, scripts, spawned, hookExit,
              hookErr>>
dirVars == <<agentDefs, generatedTools>>
detVars == <<dpc, responseText, dinput, detected>>
polVars == <<ppc, pstdin, plock, plogged, pexit>>
resVars == <<rpc, sessionDirs, sessionId, resolved>>
stopVars == <<spc, srecord, polls, sdata, cstate, registration, regcall, smarker,
              sexit>>
toolVars == <<tpc, toolFiles, clock, tools, sysModules, response, added>>
extVars == <<dirVars, detVars, polVars, resVars, stopVars, toolVars>>
allVars == <<vars, logVars, hookVars, extVars>>

-----------------------------------------------------------------------------
(* Bounds and program constants *)

\* The Restart Marker is created at most this many times (a marker left over
\* from before the launcher started counts as one creation).
MaxTouch == 2

SIGTERM == 15
SIGKILL == 9

\* Python's None and a present value.
None == <<>>
Some(x) == <<x>>

\* Python truthiness of an optional string (`if task:`, `elif args.task:`).
Truthy(opt) == opt # None /\ opt[1] # ""

\* Exit codes a host process ends with on its own.
OwnExitCodes == {0, 1}

Dispositions == {"die", "ignore"}

-----------------------------------------------------------------------------
(* Command lines *)

PermissionMode(h) ==
    IF h THEN <<"--permission-mode", "bypassPermissions">>
         ELSE <<"--permission-mode", "acceptEdits">>

\* cmd, lines 50-62
InitialCmd(h) ==
    <<"claude", "--system-prompt-file", "PROMPT_TMP", "--allowedTools", "Task">>
        \o PermissionMode(h)

\* cmd + ["-p", "@<task file>"], line 108
InitialCmdWithTask(h) == InitialCmd(h) \o <<"-p", "@TASK_TMP">>

\* RestartCmd with a fault: the relaunch forgets the tool restriction.
RestartCmd_Unrestricted(h) ==
    <<"claude", "--continue", "meta-agent finished. continue with original task">>
        \o PermissionMode(h)

\* restart_cmd, lines 131-141
RestartCmd(h) ==
    <<"claude", "--continue", "meta-agent finished. continue with original task",
      "--allowedTools", "Task">> \o PermissionMode(h)

\* The argument vector carries `flag` immediately followed by `value`.
HasOption(cmd, flag, value) ==
    \E i \in 1..(Len(cmd) - 1) : cmd[i] = flag /\ cmd[i + 1] = value

HasFlag(cmd, flag) == \E i \in 1..Len(cmd) : cmd[i] = flag

-----------------------------------------------------------------------------
(* Process group and signals *)

\* os.killpg(pgid, sig): every member of the child's group receives sig.
\* SIGKILL cannot be caught; SIGTERM kills the members that do not ignore it.
ChildAfterSignal(sig) ==
    IF childState = "running" /\ (sig = SIGKILL \/ childDisp = "die")
    THEN "zombie" ELSE childState

RetcodeAfterSignal(sig) ==
    IF childState = "running" /\ (sig = SIGKILL \/ childDisp = "die")
    THEN 0 - sig ELSE retcode

DescAfterSignal(sig) ==
    IF desc # "none" /\ (sig = SIGKILL \/ desc = "die") THEN "none" ELSE desc

\* sys.exit(code): the exit status the operating system records is the low
\* eight bits of the code.
SysExit(code) == code % 256

\* The hook processes that may be inside log_session_event at the same time.
Procs == {1, 2}

\* The session logger and the restart hook when they do not run.
LoggerOff ==
    /\ logFile = [kind |-> "absent", val |-> <<>>]
    /\ flockHolder = 0
    /\ lpc = [p \in Procs |-> "off"]
    /\ levent = [p \in Procs |-> None]
    /\ levents = [p \in Procs |-> <<>>]
    /\ stderrLog = <<>>
    /\ ticks = 0
    /\ logFile0 = logFile
    /\ logCalls = <<>>
    /\ logFaults = 0
    /\ logOverlap = FALSE

\* The directories when no program looks at them.
DirsOff ==
    /\ agentDefs = 0
    /\ generatedTools = 0

\* The programs other than `prog` when they do not run.
ProgsOff(prog) ==
    /\ IF prog = "detect" THEN TRUE
       ELSE /\ dpc = "off"
            /\ responseText = <<>>
            /\ dinput = <<>>
            /\ detected = <<>>
    /\ IF prog = "policy" THEN TRUE
       ELSE /\ ppc = "off"
            /\ pstdin = <<>>
            /\ plock = FALSE
            /\ plogged = FALSE
            /\ pexit = <<>>
    /\ IF prog = "resolve" THEN TRUE
       ELSE /\ rpc = "off"
            /\ sessionDirs = {}
            /\ sessionId = ""
            /\ resolved = <<>>
    /\ IF prog = "stop" THEN TRUE
       ELSE /\ spc = "off"
            /\ srecord = <<>>
            /\ polls = 0
            /\ sdata = <<>>
            /\ cstate = "IDLE"
            /\ registration = "none"
            /\ regcall = <<>>
            /\ smarker = FALSE
            /\ sexit = <<>>
    /\ IF prog = "tools" THEN TRUE
       ELSE /\ tpc = "off"
            /\ toolFiles = <<>>
            /\ clock = 0
            /\ tools = <<>>
            /\ sysModules = {}
            /\ response = <<>>
            /\ added = {}

ExtOff == DirsOff /\ ProgsOff("none")

HookOff ==
    /\ hpc = "off"
    /\ stdin = None
    /\ hook_data = None
    /\ task_result = None
    /\ scripts = <<>>
    /\ spawned = <<>>
    /\ hookExit = None
    /\ hookErr = "none"

-----------------------------------------------------------------------------
\* argparse: `task`, --test-prompt (absent, empty or a text), --interactive,
\* --headless.
OptStrings == {None, Some(""), Some("t")}

\* The three ways setup_configuration can find the prompt file.
PromptFiles == {"missing", "empty", "text"}

\* What main() starts from.
Args ==
    [prompt_file : PromptFiles, test_prompt : OptStrings, task : OptStrings,
     interactive : BOOLEAN, headless : BOOLEAN]

Init ==
    /\ pc = "main"
    /\ args \in {Some(a) : a \in Args}
    /\ task = None
    /\ headless = FALSE
    /\ promptTmp = FALSE
    /\ taskTmp = FALSE
    /\ marker \in BOOLEAN
    /\ lock \in BOOLEAN
    /\ childState = "none"
    /\ childDisp = "die"
    /\ retcode = 0
    /\ desc = "none"
    /\ oldAlive = FALSE
    /\ ret_code = None
    /\ launches = <<>>
    /\ retval = None
    /\ doneBy = "none"
    /\ errAt = "none"
    /\ exitStatus = None
    /\ marker0 = marker
    /\ lock0 = lock
    /\ touches = IF marker THEN 1 ELSE 0
    /\ touchesRun = 0
    /\ markerBorn = 0
    /\ pending = IF marker THEN 1 ELSE 0
    /\ bursts = IF marker THEN 1 ELSE 0
    /\ detections = 0
    /\ unlinks = 0
    /\ cycleLog = <<>>
    /\ sigLog = <<>>
    /\ LoggerOff
    /\ HookOff
    /\ ExtOff

histVars == <<marker0, lock0, touches, touchesRun, markerBorn, pending, bursts,
              detections, unlinks, cycleLog, sigLog>>
childVars == <<childState, childDisp, retcode, desc, oldAlive>>
fileVars == <<promptTmp, taskTmp, marker, lock>>
resultVars == <<retval, doneBy, errAt, exitStatus>>

-----------------------------------------------------------------------------
(* main() *)


\* setup_configuration returns False or the prompt text; `not system_prompt`
\* is true for False and for the empty text.
PromptLoaded(promptFile) == promptFile = "text"

\* StartsChild with a fault: main() never takes the help branch.
StartsChild_Always(testPrompt, argTask, interactive) == TRUE

\* The branch of main() that calls start_claude_with_config, and the task it
\* passes (lines 208-217).
StartsChild(testPrompt, argTask, interactive) ==
    Truthy(testPrompt) \/ Truthy(argTask) \/ interactive

TaskPassed(testPrompt, argTask) ==
    IF Truthy(testPrompt) THEN testPrompt
    ELSE IF Truthy(argTask) THEN argTask
    ELSE None

\* lines 195-197: no system prompt, sys.exit(1)
MainNoPrompt ==
    /\ pc = "main"
    /\ UNCHANGED <<logVars, hookVars, extVars>>
    /\ ~PromptLoaded(args[1].prompt_file)
    /\ exitStatus' = Some(SysExit(1))
    /\ pc' = "exited"
    /\ UNCHANGED <<args, task, headless, fileVars, childVars, ret_code, launches,
                   retval, doneBy, errAt, histVars>>

\* lines 218-223: nothing to run, print help, sys.exit(0)
MainHelp ==
    /\ pc = "main"
    /\ UNCHANGED <<logVars, hookVars, extVars>>
    /\ PromptLoaded(args[1].prompt_file)
    /\ ~StartsChild(args[1].test_prompt, args[1].task, args[1].interactive)
    /\ exitStatus' = Some(SysExit(0))
    /\ pc' = "exited"
    /\ UNCHANGED <<args, task, headless, fileVars, childVars, ret_code, launches,
                   retval, doneBy, errAt, histVars>>

\* lines 208-217 and 29-93: call start_claude_with_config; it writes the
\* temporary system-prompt file and builds cmd before entering the try block.
MainStart ==
    /\ pc = "main"
    /\ UNCHANGED <<logVars, hookVars, extVars>>
    /\ PromptLoaded(args[1].prompt_file)
    /\ StartsChild(args[1].test_prompt, args[1].task, args[1].interactive)
    /\ task' = TaskPassed(args[1].test_prompt, args[1].task)
    /\ headless' = args[1].headless
    /\ promptTmp' = TRUE
    /\ pc' = "first_launch"
    /\ UNCHANGED <<args, taskTmp, marker, lock, childVars, ret_code, launches,
                   resultVars, histVars>>

\* line 223: sys.exit(return_code)
MainExit ==
    /\ pc = "returned"
    /\ UNCHANGED <<logVars, hookVars, extVars>>
    /\ exitStatus' = Some(SysExit(retval[1]))
    /\ pc' = "exited"
    /\ UNCHANGED <<args, task, headless, fileVars, childVars, ret_code, launches,
                   retval, doneBy, errAt, histVars>>

-----------------------------------------------------------------------------
(* start_claude_with_config: the try block *)

\* The `finally` clause (lines 170-175): os.unlink(prompt_file.name) is the
\* only deletion; the task file is left alone.  Whether the system-prompt
\* file exists afterwards:
FinallyPrompt == FALSE

\* `except Exception` (lines 167-169) followed by `finally`.
RaiseException(at) ==
    /\ retval' = Some(1)
    /\ doneBy' = "error"
    /\ errAt' = at
    /\ promptTmp' = FinallyPrompt
    /\ pc' = "returned"

\* launch(cmd_args) (lines 96-100) returned a Popen: a new child in a new
\* session and process group.  Members of the previous child's group that
\* are still alive stay behind.
Launched(cmd) ==
    /\ launches' = Append(launches, cmd)
    /\ childState' = "running"
    /\ \E d \in Dispositions : childDisp' = d
    /\ retcode' = 0
    /\ oldAlive' = (oldAlive \/ childState = "running" \/ desc # "none")
    /\ desc' = "none"
    /\ sigLog' = <<>>

\* lines 102-110: first launch, with the task file when a task was given
FirstLaunch ==
    /\ pc = "first_launch"
    /\ UNCHANGED <<logVars, hookVars, extVars>>
    /\ taskTmp' = Truthy(task)
    /\ Launched(IF Truthy(task) THEN InitialCmdWithTask(headless)
                                ELSE InitialCmd(headless))
    /\ pc' = "poll"
    /\ args' = None
    /\ UNCHANGED <<task, headless, promptTmp, marker, lock, ret_code,
                   resultVars, marker0, lock0, touches, touchesRun, markerBorn, pending,
                   bursts, detections, unlinks, cycleLog>>

\* lines 102-110: subprocess.Popen raises on the first launch
FirstLaunchFails ==
    /\ pc = "first_launch"
    /\ UNCHANGED <<logVars, hookVars, extVars>>
    /\ taskTmp' = Truthy(task)
    /\ RaiseException("launch")
    /\ args' = None
    /\ UNCHANGED <<task, headless, marker, lock, childVars, ret_code,
                   launches, exitStatus, histVars>>

\* line 114: ret_code = child_proc.poll(); a dead child is reaped
Poll ==
    /\ pc = "poll"
    /\ UNCHANGED <<logVars, hookVars, extVars>>
    /\ ret_code' = IF childState = "running" THEN None ELSE Some(retcode)
    /\ childState' = IF childState = "zombie" THEN "reaped" ELSE childState
    /\ pc' = "check_marker"
    /\ UNCHANGED <<args, task, headless, fileVars, childDisp, retcode, desc,
                   oldAlive, launches, resultVars, histVars>>

\* line 115: if RESTART_MARKER.exists()
CheckMarker ==
    /\ pc = "check_marker"
    /\ UNCHANGED <<logVars, hookVars, extVars>>
    /\ IF marker
       THEN /\ pc' = "unlink"
            /\ detections' = detections + 1
            /\ cycleLog' = <<>>
       ELSE /\ pc' = "check_ret"
            /\ UNCHANGED <<detections, cycleLog>>
    /\ UNCHANGED <<args, task, headless, fileVars, childVars, ret_code, launches,
                   resultVars, marker0, lock0, touches, touchesRun, markerBorn, pending,
                   bursts, unlinks, sigLog>>

\* UnlinkMarker with a fault: the marker is left in place.
UnlinkMarker_Skipped ==
    /\ pc = "unlink"
    /\ UNCHANGED <<logVars, hookVars, extVars>>
    /\ marker' = marker
    /\ pending' = 0
    /\ unlinks' = unlinks + 1
    /\ cycleLog' = Append(cycleLog, "unlink")
    /\ pc' = "getpgid"
    /\ UNCHANGED <<args, task, headless, promptTmp, taskTmp, lock, childVars,
                   ret_code, launches, resultVars, marker0, lock0, touches,
                   touchesRun, markerBorn, bursts, detections, sigLog>>

\* line 118: RESTART_MARKER.unlink(missing_ok=True)
UnlinkMarker ==
    /\ pc = "unlink"
    /\ UNCHANGED <<logVars, hookVars, extVars>>
    /\ marker' = FALSE
    /\ pending' = 0
    /\ unlinks' = unlinks + 1
    /\ cycleLog' = Append(cycleLog, "unlink")
    /\ pc' = "getpgid"
    /\ UNCHANGED <<args, task, headless, promptTmp, taskTmp, lock, childVars,
                   ret_code, launches, resultVars, marker0, lock0, touches,
                   touchesRun, markerBorn, bursts, detections, sigLog>>

\* line 121: pgid = os.getpgid(child_proc.pid).  A child that poll() has
\* reaped no longer exists: ProcessLookupError, caught at line 167.
GetPgid ==
    /\ pc = "getpgid"
    /\ UNCHANGED <<logVars, hookVars, extVars>>
    /\ IF childState = "reaped"
       THEN /\ RaiseException("getpgid")
            /\ UNCHANGED exitStatus
       ELSE /\ pc' = "sigterm"
            /\ UNCHANGED <<promptTmp, resultVars>>
    /\ UNCHANGED <<args, task, headless, taskTmp, marker, lock, childVars, ret_code,
                   launches, histVars>>

\* line 122: os.killpg(pgid, signal.SIGTERM)
SigTerm ==
    /\ pc = "sigterm"
    /\ UNCHANGED <<logVars, hookVars, extVars>>
    /\ childState' = ChildAfterSignal(SIGTERM)
    /\ retcode' = RetcodeAfterSignal(SIGTERM)
    /\ desc' = DescAfterSignal(SIGTERM)
    /\ sigLog' = Append(sigLog, <<SIGTERM, "restart">>)
    /\ cycleLog' = Append(cycleLog, "sigterm")
    /\ pc' = "wait"
    /\ UNCHANGED <<args, task, headless, fileVars, childDisp, oldAlive, ret_code,
                   launches, resultVars, marker0, lock0, touches, touchesRun, markerBorn,
                   pending, bursts, detections, unlinks>>

\* lines 123-125: child_proc.wait(timeout=5) returns (the child is dead and
\* is reaped) or raises TimeoutExpired (the child is still running)
Wait ==
    /\ pc = "wait"
    /\ UNCHANGED <<logVars, hookVars, extVars>>
    /\ IF childState = "running"
       THEN /\ pc' = "sigkill"
            /\ cycleLog' = Append(cycleLog, "wait_timeout")
            /\ UNCHANGED childState
       ELSE /\ pc' = "touch_lock"
            /\ cycleLog' = Append(cycleLog, "wait_ok")
            /\ childState' = "reaped"
    /\ UNCHANGED <<args, task, headless, fileVars, childDisp, retcode, desc,
                   oldAlive, ret_code, launches, resultVars, marker0, lock0,
                   touches, touchesRun, markerBorn, pending, bursts, detections, unlinks,
                   sigLog>>

\* line 126: os.killpg(pgid, signal.SIGKILL)
SigKill ==
    /\ pc = "sigkill"
    /\ UNCHANGED <<logVars, hookVars, extVars>>
    /\ childState' = ChildAfterSignal(SIGKILL)
    /\ retcode' = RetcodeAfterSignal(SIGKILL)
    /\ desc' = DescAfterSignal(SIGKILL)
    /\ sigLog' = Append(sigLog, <<SIGKILL, "restart">>)
    /\ cycleLog' = Append(cycleLog, "sigkill")
    /\ pc' = "touch_lock"
    /\ UNCHANGED <<args, task, headless, fileVars, childDisp, oldAlive, ret_code,
                   launches, resultVars, marker0, lock0, touches, touchesRun, markerBorn,
                   pending, bursts, detections, unlinks>>

\* line 128: Path(".primary_locked").touch()
TouchLock ==
    /\ pc = "touch_lock"
    /\ UNCHANGED <<logVars, hookVars, extVars>>
    /\ lock' = TRUE
    /\ cycleLog' = Append(cycleLog, "touch_lock")
    /\ pc' = "relaunch"
    /\ UNCHANGED <<args, task, headless, promptTmp, taskTmp, marker, childVars,
                   ret_code, launches, resultVars, marker0, lock0, touches,
                   touchesRun, markerBorn, pending, bursts, detections, unlinks, sigLog>>

\* lines 131-146: child_proc = launch(restart_cmd); continue
Relaunch ==
    /\ pc = "relaunch"
    /\ UNCHANGED <<logVars, hookVars, extVars>>
    /\ Launched(RestartCmd(headless))
    /\ cycleLog' = Append(cycleLog, "launch")
    /\ pc' = "poll"
    /\ UNCHANGED <<args, task, headless, fileVars, ret_code, resultVars, marker0,
                   lock0, touches, touchesRun, markerBorn, pending, bursts, detections,
                   unlinks>>

\* RelaunchFails with a fault: the failure is noted and the launch tried again.
RelaunchFails_Retry ==
    /\ pc = "relaunch"
    /\ UNCHANGED <<logVars, hookVars, extVars>>
    /\ errAt' = "launch"
    /\ doneBy' = "error"
    /\ retval' = Some(1)
    /\ cycleLog' = Append(cycleLog, "launch")
    /\ pc' = "relaunch"
    /\ UNCHANGED <<args, task, headless, fileVars, childVars, ret_code,
                   launches, exitStatus, marker0, lock0, touches, touchesRun, markerBorn,
                   pending, bursts, detections, unlinks, sigLog>>

\* line 142: subprocess.Popen raises on the relaunch
RelaunchFails ==
    /\ pc = "relaunch"
    /\ UNCHANGED <<logVars, hookVars, extVars>>
    /\ RaiseException("launch")
    /\ cycleLog' = Append(cycleLog, "launch")
    /\ UNCHANGED <<args, task, headless, taskTmp, marker, lock, childVars, ret_code,
                   launches, exitStatus, marker0, lock0, touches, touchesRun, markerBorn,
                   pending, bursts, detections, unlinks, sigLog>>

\* line 147: if ret_code is not None ... else line 161: time.sleep(1)
\* CheckRet with a fault: the loop goes on after the child's exit.
CheckRet_NeverExits ==
    /\ pc = "check_ret"
    /\ UNCHANGED <<logVars, hookVars, extVars>>
    /\ pc' = "sleep"
    /\ UNCHANGED <<args, task, headless, fileVars, childVars, ret_code, launches,
                   resultVars, histVars>>

CheckRet ==
    /\ pc = "check_ret"
    /\ UNCHANGED <<logVars, hookVars, extVars>>
    /\ pc' = IF ret_code # None THEN "clear_lock" ELSE "sleep"
    /\ UNCHANGED <<args, task, headless, fileVars, childVars, ret_code, launches,
                   resultVars, histVars>>

\* ExitBranch with a fault: returns 0 whatever the child's return code.
ExitBranch_ReturnsZero ==
    /\ pc = "clear_lock"
    /\ UNCHANGED <<logVars, hookVars, extVars>>
    /\ lock' = FALSE
    /\ retval' = Some(0)
    /\ doneBy' = "exit"
    /\ promptTmp' = FALSE
    /\ pc' = "returned"
    /\ UNCHANGED <<args, task, headless, taskTmp, marker, childVars, ret_code,
                   launches, errAt, exitStatus, histVars>>

\* lines 152-160: Path(".primary_locked").unlink(missing_ok=True);
\* return ret_code; then the `finally` clause
ExitBranch ==
    /\ pc = "clear_lock"
    /\ UNCHANGED <<logVars, hookVars, extVars>>
    /\ lock' = FALSE
    /\ retval' = ret_code
    /\ doneBy' = "exit"
    /\ promptTmp' = FinallyPrompt
    /\ pc' = "returned"
    /\ UNCHANGED <<args, task, headless, taskTmp, marker, childVars, ret_code,
                   launches, errAt, exitStatus, histVars>>

\* line 161: time.sleep(1)
Sleep ==
    /\ pc = "sleep"
    /\ UNCHANGED <<logVars, hookVars, extVars>>
    /\ pc' = "poll"
    /\ UNCHANGED <<args, task, headless, fileVars, childVars, ret_code, launches,
                   resultVars, histVars>>

\* The positions inside the try block (lines 94-161).
TryPcs == {"first_launch", "poll", "check_marker", "unlink", "getpgid",
           "sigterm", "wait", "sigkill", "touch_lock", "relaunch",
           "check_ret", "clear_lock", "sleep"}

\* The positions of a restart cycle (lines 116-146).
CyclePcs == {"unlink", "getpgid", "sigterm", "wait", "sigkill", "touch_lock",
             "relaunch"}

\* Interrupt with a fault: returns 0 without signalling the child's group.
Interrupt_NoKill ==
    /\ pc \in TryPcs
    /\ UNCHANGED <<logVars, hookVars, extVars>>
    /\ retval' = Some(0)
    /\ doneBy' = "interrupt"
    /\ promptTmp' = FALSE
    /\ pc' = "returned"
    /\ UNCHANGED <<args, task, headless, taskTmp, marker, lock, childVars,
                   ret_code, launches, errAt, exitStatus, histVars>>

\* lines 162-166: except KeyboardInterrupt.  child_proc.poll() reaps a dead
\* child; a running one gets SIGTERM on its process group; return 0.
Interrupt ==
    /\ pc \in TryPcs
    /\ UNCHANGED <<logVars, hookVars, extVars>>
    /\ IF childState = "running"
       THEN /\ childState' = ChildAfterSignal(SIGTERM)
            /\ retcode' = RetcodeAfterSignal(SIGTERM)
            /\ desc' = DescAfterSignal(SIGTERM)
            /\ sigLog' = Append(sigLog, <<SIGTERM, "interrupt">>)
       ELSE /\ childState' = IF childState = "zombie" THEN "reaped"
                                                      ELSE childState
            /\ UNCHANGED <<retcode, desc, sigLog>>
    /\ retval' = Some(0)
    /\ doneBy' = "interrupt"
    /\ promptTmp' = FinallyPrompt
    /\ pc' = "returned"
    /\ UNCHANGED <<args, task, headless, taskTmp, marker, lock, childDisp, oldAlive,
                   ret_code, launches, errAt, exitStatus, marker0, lock0,
                   touches, touchesRun, markerBorn, pending, bursts, detections, unlinks,
                   cycleLog>>

-----------------------------------------------------------------------------
(* Environment: hooks, the host process and its descendants, observed      *)
(* while start_claude_with_config is inside its try block                  *)

\* A hook creates the Restart Marker: Path.touch(), a no-op on the file
\* system when the marker already exists.
TouchMarker ==
    /\ pc \in TryPcs
    /\ UNCHANGED <<logVars, hookVars, extVars>>
    /\ touches < MaxTouch
    /\ marker' = TRUE
    /\ touches' = touches + 1
    /\ touchesRun' = IF childState = "running" THEN touchesRun + 1
                                               ELSE touchesRun
    /\ pending' = pending + 1
    /\ bursts' = IF marker THEN bursts ELSE bursts + 1
    /\ markerBorn' = IF marker THEN markerBorn ELSE Len(launches)
    /\ UNCHANGED <<pc, args, task, headless, promptTmp, taskTmp, lock, childVars,
                   ret_code, launches, resultVars, marker0, lock0,
                   detections, unlinks, cycleLog, sigLog>>

\* The host process ends on its own with an exit code.
ChildExit(code) ==
    /\ pc \in TryPcs
    /\ UNCHANGED <<logVars, hookVars, extVars>>
    /\ childState = "running"
    /\ childState' = "zombie"
    /\ retcode' = code
    /\ UNCHANGED <<pc, args, task, headless, fileVars, childDisp, desc, oldAlive,
                   ret_code, launches, resultVars, histVars>>

\* The host process is killed from outside the supervisor (kill -9, the
\* kernel's out-of-memory killer): Popen reports -SIGKILL.
ChildKilled ==
    /\ pc \in TryPcs
    /\ UNCHANGED <<logVars, hookVars, extVars>>
    /\ childState = "running"
    /\ childState' = "zombie"
    /\ retcode' = 0 - SIGKILL
    /\ UNCHANGED <<pc, args, task, headless, fileVars, childDisp, desc, oldAlive,
                   ret_code, launches, resultVars, histVars>>

\* The running host process starts a descendant in its process group.
Spawn ==
    /\ pc \in TryPcs
    /\ UNCHANGED <<logVars, hookVars, extVars>>
    /\ childState = "running"
    /\ desc = "none"
    /\ \E d \in Dispositions : desc' = d
    /\ UNCHANGED <<pc, args, task, headless, fileVars, childState, childDisp,
                   retcode, oldAlive, ret_code, launches, resultVars, histVars>>

\* The descendant ends on its own.
DescExit ==
    /\ pc \in TryPcs
    /\ UNCHANGED <<logVars, hookVars, extVars>>
    /\ desc # "none"
    /\ desc' = "none"
    /\ UNCHANGED <<pc, args, task, headless, fileVars, childState, childDisp,
                   retcode, oldAlive, ret_code, launches, resultVars, histVars>>

\* The survivors of an earlier process group end on their own.
OldExit ==
    /\ pc \in TryPcs
    /\ UNCHANGED <<logVars, hookVars, extVars>>
    /\ oldAlive
    /\ oldAlive' = FALSE
    /\ UNCHANGED <<pc, args, task, headless, fileVars, childState, childDisp,
                   retcode, desc, ret_code, launches, resultVars, histVars>>

-----------------------------------------------------------------------------
Supervisor ==
    \/ MainNoPrompt \/ MainHelp \/ MainStart \/ MainExit
    \/ FirstLaunch \/ FirstLaunchFails
    \/ Poll \/ CheckMarker \/ UnlinkMarker \/ GetPgid \/ SigTerm \/ Wait
    \/ SigKill \/ TouchLock \/ Relaunch \/ RelaunchFails
    \/ CheckRet \/ ExitBranch \/ Sleep

Environment ==
    \/ TouchMarker
    \/ \E code \in OwnExitCodes : ChildExit(code)
    \/ ChildKilled \/ Spawn \/ DescExit \/ OldExit

Next == Supervisor \/ Interrupt \/ Environment

Spec == Init /\ [][Next]_vars

\* The launcher under fair scheduling: the launcher process keeps running
\* (every call it makes returns or raises: Popen, poll, wait with its
\* timeout, sleep), and a child left running ends on its own at some time.
SpecFair ==
    /\ Init /\ [][Next]_vars
    /\ WF_vars(Supervisor)
    /\ WF_vars(\E code \in OwnExitCodes : ChildExit(code))

-----------------------------------------------------------------------------
(* Properties of the Supervisor Loop *)

IsPrefix(s, t) == Len(s) <= Len(t) /\ SubSeq(t, 1, Len(s)) = s

Returned == pc \in {"returned", "exited"} /\ doneBy # "none"

\* The two complete restart cycles: the child exits within the timeout, or
\* the wait times out and the group is killed.
GracefulCycle == <<"unlink", "sigterm", "wait_ok", "touch_lock", "launch">>
ForcedCycle ==
    <<"unlink", "sigterm", "wait_timeout", "sigkill", "touch_lock", "launch">>

\* C1: whenever a poll finds the Restart Marker, the supervisor deletes the
\* marker, sends SIGTERM to the child's group, waits for the child, sends
\* SIGKILL only if the wait timed out, creates the Lock Marker and launches
\* a continuation child, in this order and skipping no step.  (A cycle cut
\* short by the operator's interrupt is not held against the claim.)
C1_RestartStepsInOrder ==
    detections > 0 =>
        IF pc \in CyclePcs
        THEN IsPrefix(cycleLog, GracefulCycle) \/ IsPrefix(cycleLog, ForcedCycle)
        ELSE \/ doneBy = "interrupt"
             \/ /\ cycleLog \in {GracefulCycle, ForcedCycle}
                /\ (errAt = "launch"
                      \/ HasFlag(launches[Len(launches)], "--continue"))

\* C1, as far as the code goes: the steps that are performed are performed
\* in the claimed order, and a cycle stops short only by an interrupt or by
\* os.getpgid raising for a child that poll() has already reaped.
C1_StepsInOrderUnlessReaped ==
    detections > 0 =>
        IF pc \in CyclePcs
        THEN IsPrefix(cycleLog, GracefulCycle) \/ IsPrefix(cycleLog, ForcedCycle)
        ELSE \/ doneBy = "interrupt"
             \/ cycleLog \in {GracefulCycle, ForcedCycle}
             \/ errAt = "getpgid" /\ cycleLog = <<"unlink">> /\ childState = "reaped"

\* C2: if exactly one Restart Marker is created, while a child is running
\* (and the run is neither interrupted nor stopped by a failing launch),
\* exactly one terminate-then-relaunch cycle occurs, and the Lock Marker
\* exists for as long as a relaunched child is running.
C2_OneMarkerOneCycle ==
    /\ ( /\ Returned
         /\ doneBy # "interrupt"
         /\ errAt # "launch"
         /\ ~marker0 /\ touches = 1 /\ touchesRun = 1 )
       => ( /\ detections = 1
            /\ cycleLog \in {GracefulCycle, ForcedCycle}
            /\ Len(launches) = 2 )
    /\ (Len(launches) >= 2 /\ childState = "running") => lock

\* C2, as far as the code goes: the cycle is missing only when os.getpgid
\* raised.
C2_OneCycleUnlessReaped ==
    /\ ( /\ Returned
         /\ doneBy # "interrupt"
         /\ errAt = "none"
         /\ ~marker0 /\ touches = 1 /\ touchesRun = 1 )
       => ( /\ detections = 1
            /\ cycleLog \in {GracefulCycle, ForcedCycle}
            /\ Len(launches) = 2 )
    /\ (Len(launches) >= 2 /\ childState = "running") => lock

C4_ExitCodePropagated ==
    doneBy = "exit" =>
        /\ ~lock
        /\ retval = Some(retcode)
        /\ pc = "exited" => exitStatus = retval

\* C4 (amended): from a poll that found the child exited and no marker, the
\* supervisor's next steps (unless the operator interrupts) remove the Lock
\* Marker and return the child's return code; main() passes it to sys.exit,
\* so the launcher's exit status is that value modulo 256: the child's exit
\* code when the child exited on its own, 256 - N when signal N killed it.
C4_ExitCodePropagatedModulo ==
    /\ [][ /\ (pc = "check_ret" /\ ret_code # None /\ pc' # pc
                   /\ doneBy' # "interrupt")
              => pc' = "clear_lock"
           /\ (pc = "clear_lock" /\ pc' # pc /\ doneBy' # "interrupt")
              => /\ ~lock'
                 /\ retval' = ret_code /\ ret_code = Some(retcode)
                 /\ doneBy' = "exit" /\ pc' = "returned" ]_vars
    /\ [](doneBy = "exit" =>
            /\ ~lock
            /\ retval = Some(retcode)
            /\ pc = "exited" =>
                 /\ exitStatus[1] \in 0..255
                 /\ (exitStatus[1] - retcode) % 256 = 0
                 /\ retcode >= 0 => exitStatus = retval)

C4_Witness ==
    /\ pc = "exited" /\ doneBy = "exit"
    /\ Len(launches) = 2
    /\ retcode = 1 /\ exitStatus = Some(1)
    /\ ~lock

\* C5: whenever start_claude_with_config has returned (child exit, operator
\* interrupt or error), the Lock Marker is absent, also after restarts have
\* set it.  (Stated for a run that started without a leftover Lock Marker.)
C5_LockClearedOnTermination ==
    (Returned /\ ~lock0) => ~lock

\* C6: on KeyboardInterrupt at any point of the try block, the supervisor
\* sends SIGTERM to the child's process group exactly if the child is still
\* running, and returns 0 (which main() turns into exit status 0).
C6_InterruptTerminatesAndReturnsZero ==
    /\ [][ (doneBy' = "interrupt" /\ doneBy # "interrupt")
              => /\ pc \in TryPcs
                 /\ pc' = "returned" /\ retval' = Some(0)
                 /\ (childState = "running")
                       <=> sigLog' = Append(sigLog, <<SIGTERM, "interrupt">>)
                 /\ (childState # "running") => sigLog' = sigLog
                 /\ (childState = "running" /\ childDisp = "die")
                       => childState' = "zombie"
                 /\ (childState = "running" /\ desc = "die")
                       => desc' = "none" ]_vars
    /\ [](doneBy = "interrupt" =>
            /\ retval = Some(0)
            /\ pc = "exited" => exitStatus = Some(0))

C6_Witness ==
    /\ pc = "exited" /\ doneBy = "interrupt"
    /\ Len(launches) = 2
    /\ sigLog = << <<SIGTERM, "interrupt">> >>
    /\ exitStatus = Some(0)

\* C7: every termination the supervisor performs, on restart and on
\* interrupt, ends with no process of the child's group running once the
\* supervisor relaunches (no survivor of an earlier group) or returns.
C7_NoGroupMemberSurvives ==
    /\ ~oldAlive
    /\ doneBy = "interrupt" => (childState # "running" /\ desc = "none")

\* C8: on every exit path of start_claude_with_config the temporary files
\* it created (system-prompt file, task file) have been deleted by the time
\* it returns.
C8_TempFilesDeleted ==
    Returned => (~promptTmp /\ ~taskTmp)

\* C8, as far as the code goes: the system-prompt file is deleted on every
\* exit path; the task file, once written, is never deleted.
C8_PromptFileDeleted ==
    /\ Returned => ~promptTmp
    /\ taskTmp => Truthy(task)
    /\ (launches # <<>> \/ errAt = "launch") => (taskTmp <=> Truthy(task))

\* C9: if launching the child raises, on the first launch or on a relaunch,
\* the supervisor launches no further child, returns 1, and the launcher
\* exits with a non-zero status.
C9_LaunchFailureIsFatal ==
    /\ [][errAt = "launch" => launches' = launches]_vars
    /\ [][ (errAt' = "launch" /\ errAt # "launch")
              => (pc \in {"first_launch", "relaunch"} /\ pc' = "returned") ]_vars
    /\ [](errAt = "launch" =>
            /\ pc \in {"returned", "exited"}
            /\ doneBy = "error"
            /\ retval = Some(1)
            /\ pc = "exited" => (exitStatus # None /\ exitStatus # Some(0)))

C9_Witness ==
    /\ errAt = "launch"
    /\ Len(launches) = 1
    /\ pc = "exited"
    /\ exitStatus = Some(1)

C28_ExitedChildWithMarkerRestarts ==
    (detections > 0 /\ ret_code # None /\ (pc = "poll" \/ doneBy = "error"))
        => /\ cycleLog \in {GracefulCycle, ForcedCycle}
           /\ lock
           /\ (errAt = "launch"
                 \/ HasFlag(launches[Len(launches)], "--continue"))

\* C29: the supervisor terminates a child only because of a Restart Marker
\* created during that child's lifetime: whenever the current child's group
\* has been signalled for a restart, the marker that was found was created
\* after that child was launched.
C29_TerminatedOnlyForOwnMarker ==
    (\E i \in DOMAIN sigLog : sigLog[i][2] = "restart")
        => markerBorn = Len(launches)

\* C30: when the Supervisor Loop has terminated, no Restart Marker created
\* while the supervisor was running is outstanding.
C30_NoMarkerOutstandingAtTermination ==
    (Returned /\ ~marker0) => ~marker

\* C31: at most one host process started for the session is alive at any
\* time: while the supervised child runs, no member of an earlier child's
\* process group is still alive (the supervisor never launches a new child
\* while the previous child or a member of its group is running).
C31_OneHostProcessAlive ==
    childState = "running" => ~oldAlive

\* C32: while the initially launched (non-continuation) child is running and
\* no restart has yet occurred in this supervisor run, the Lock Marker is
\* absent, whatever an earlier run in the same working directory left.
C32_NoLockBeforeFirstRestart ==
    (Len(launches) = 1 /\ childState = "running" /\ unlinks = 0) => ~lock

\* C33: if every launched child eventually exits and from some point on no
\* new Restart Marker is created (the markers are finitely many), the
\* Supervisor Loop, once entered, eventually terminates under fair
\* scheduling: start_claude_with_config returns.
C33_LoopTerminates ==
    (pc = "poll") ~> Returned

\* The loop ended by the exit of a relaunched child.
C33_Witness ==
    /\ Returned
    /\ doneBy = "exit"
    /\ Len(launches) = 2
    /\ touches = MaxTouch

\* C36: the launcher starts a child only when a task, a test prompt or
\* --interactive is given (and not empty) and the primary-agent system
\* prompt was loaded; with a missing prompt file it exits 1 without
\* launching anything, and with no task, no test prompt and no
\* --interactive it prints help and exits 0 without launching anything.
C36_LaunchOnlyWithWorkAndPrompt ==
    /\ [][ (launches = <<>> /\ launches' # <<>>)
              => /\ args # None
                 /\ args[1].prompt_file = "text"
                 /\ \/ Truthy(args[1].test_prompt)
                    \/ Truthy(args[1].task)
                    \/ args[1].interactive ]_vars
    /\ []((pc = "exited" /\ args # None /\ args[1].prompt_file = "missing")
            => (exitStatus = Some(1) /\ launches = <<>>))
    /\ []((/\ pc = "exited" /\ doneBy = "none" /\ args # None
           /\ args[1].prompt_file = "text"
           /\ args[1].test_prompt = None /\ args[1].task = None
           /\ ~args[1].interactive)
            => (exitStatus = Some(0) /\ launches = <<>>))
    /\ []((pc = "main" /\ args[1].prompt_file = "missing")
            => ENABLED MainNoPrompt)

\* A child launched with --interactive alone.
C36_Witness ==
    /\ Len(launches) = 1
    /\ childState = "running"
    /\ task = None
    /\ ~HasFlag(launches[1], "-p")

-----------------------------------------------------------------------------
(***************************************************************************)
(* session_logger.py: log_session_event and its wrappers.  Every hook is   *)
(* its own process, so two calls may be in progress at once; `Procs` are   *)
(* those processes and lpc[p] is the position of p inside the call.        *)
(***************************************************************************)

\* log_session_event is called at most this many times.
MaxCalls == 2

\* The launcher when it does not run.
LauncherOff ==
    /\ pc = "off"
    /\ args = None
    /\ task = None
    /\ headless = FALSE
    /\ promptTmp = FALSE
    /\ taskTmp = FALSE
    /\ marker = FALSE
    /\ lock = FALSE
    /\ childState = "none"
    /\ childDisp = "die"
    /\ retcode = 0
    /\ desc = "none"
    /\ oldAlive = FALSE
    /\ ret_code = None
    /\ launches = <<>>
    /\ retval = None
    /\ doneBy = "none"
    /\ errAt = "none"
    /\ exitStatus = None
    /\ marker0 = FALSE
    /\ lock0 = FALSE
    /\ touches = 0
    /\ touchesRun = 0
    /\ markerBorn = 0
    /\ pending = 0
    /\ bursts = 0
    /\ detections = 0
    /\ unlinks = 0
    /\ cycleLog = <<>>
    /\ sigLog = <<>>

\* The event types of the four wrappers and the hook input documents they
\* are called with (JSON documents; the logger never looks inside).
LogEventTypes ==
    {"user_prompt_submit", "pre_tool_use", "post_tool_use", "session_stop"}
HookData(event_type) ==
    CASE event_type = "user_prompt_submit" ->
            {"prompt: calculate 4+4", "prompt: hello"}
      [] event_type = "pre_tool_use" -> {"tool: Task"}
      [] event_type = "post_tool_use" -> {"tool: Task, result: 8"}
      [] event_type = "session_stop" -> {"duration: 30s"}

\* `event`: the record log_session_event builds.
Event(timestamp, event_type, data) ==
    [timestamp |-> timestamp, event_type |-> event_type, data |-> data]

\* What session_events.json can hold.  kind "list" is the text json.dump
\* writes for a list of events, "object" the text of a JSON value that is no
\* list, "empty" a file of length zero, "malformed" text that is not JSON
\* (a partial or overwritten dump among them), "undecodable" bytes that are
\* not text in the encoding the file is opened with.
FileOf(kind) == [kind |-> kind, val |-> <<>>]
Absent == FileOf("absent")

\* json.dump(events, f, indent=2)
JsonDump(events) == [kind |-> "list", val |-> events]

\* json.load(f): the value parsed, or the exception raised.
JsonLoad(file) ==
    CASE file.kind = "list" ->
            [exc |-> "none", isList |-> TRUE, val |-> file.val]
      [] file.kind = "object" ->
            [exc |-> "none", isList |-> FALSE, val |-> <<>>]
      [] file.kind \in {"empty", "malformed"} ->
            [exc |-> "JSONDecodeError", isList |-> FALSE, val |-> <<>>]
      [] file.kind = "undecodable" ->
            [exc |-> "UnicodeDecodeError", isList |-> FALSE, val |-> <<>>]

\* An event stored by an earlier session.
StoredEvent == Event(0, "user_prompt_submit", "prompt: hello")

InitialFiles ==
    {Absent, FileOf("empty"), FileOf("malformed"), FileOf("undecodable"),
     FileOf("object"), JsonDump(<<>>), JsonDump(<<StoredEvent>>)}

InitLog ==
    /\ LauncherOff
    /\ HookOff
    /\ ExtOff
    /\ logFile \in InitialFiles
    /\ flockHolder = 0
    /\ lpc = [p \in Procs |-> "idle"]
    /\ levent = [p \in Procs |-> None]
    /\ levents = [p \in Procs |-> <<>>]
    /\ stderrLog = <<>>
    /\ ticks = 0
    /\ logFile0 = logFile
    /\ logCalls = <<>>
    /\ logFaults = 0
    /\ logOverlap = FALSE

Idle == \A p \in Procs : lpc[p] = "idle"
logHist == <<ticks, logFile0, logCalls, logOverlap>>

\* The call is over: it returned ("idle") or an exception left it.
LogReturn(p, how) ==
    /\ lpc' = [lpc EXCEPT ![p] = how]
    /\ levent' = [levent EXCEPT ![p] = None]
    /\ levents' = [levents EXCEPT ![p] = <<>>]

\* LogHandler with a fault: the exception is not caught.
LogHandler_Reraises(p) ==
    /\ stderrLog' = stderrLog
    /\ LogReturn(p, "raised")

\* `except Exception`: the event goes to stderr and the call returns.
LogHandler(p) ==
    /\ stderrLog' = Append(stderrLog, levent[p][1])
    /\ LogReturn(p, "idle")

\* An I/O call of p fails.
IOFails(p) ==
    /\ logFaults' = logFaults + 1
    /\ LogHandler(p)

\* log_session_event(event_type, data): build the event.  The processes are
\* interchangeable: a call that starts while no other is in progress is made
\* by process 1.
log_session_event(p, event_type, data) ==
    /\ pc = "off"
    /\ lpc[p] = "idle"
    /\ p = 1 \/ lpc[1] # "idle"
    /\ ticks < MaxCalls
    /\ ticks' = ticks + 1
    /\ levent' = [levent EXCEPT ![p] = Some(Event(ticks', event_type, data))]
    /\ logCalls' = Append(logCalls, Event(ticks', event_type, data))
    /\ logOverlap' = (logOverlap \/ \E q \in Procs \ {p} : lpc[q] # "idle")
    /\ lpc' = [lpc EXCEPT ![p] = "read"]
    /\ UNCHANGED <<vars, hookVars, extVars, logFile, flockHolder, levents, stderrLog,
                   logFile0, logFaults>>

log_user_input(p, user_data) ==
    log_session_event(p, "user_prompt_submit", user_data)
log_pre_tool_use(p, tool_data) ==
    log_session_event(p, "pre_tool_use", tool_data)
log_post_tool_use(p, tool_data) ==
    log_session_event(p, "post_tool_use", tool_data)
log_session_stop(p, stop_data) ==
    log_session_event(p, "session_stop", stop_data)

\* What `events` is before the append: [] when there is no file; else the
\* parsed list, or [] when the text is not JSON or the value is no list.
EventsRead(file) ==
    IF file.kind = "absent"
    THEN <<>>
    ELSE IF JsonLoad(file).exc = "none" /\ JsonLoad(file).isList
         THEN JsonLoad(file).val
         ELSE <<>>

\* ReadLog with a fault: the stored events are dropped.
ReadLog_Forgets(p) ==
    /\ lpc[p] = "read"
    /\ levents' = [levents EXCEPT ![p] = <<levent[p][1]>>]
    /\ lpc' = [lpc EXCEPT ![p] = "open_w"]
    /\ UNCHANGED <<vars, hookVars, extVars, logFile, flockHolder, levent, stderrLog,
                   logFaults, logHist>>

\* `if log_file.exists():` open(log_file, 'r'), json.load(f); `else:`
\* events = []; then events.append(event).  The inner handler catches
\* json.JSONDecodeError only.
ReadLog(p) ==
    /\ lpc[p] = "read"
    /\ IF \/ logFile.kind = "absent"
          \/ JsonLoad(logFile).exc \in {"none", "JSONDecodeError"}
       THEN /\ levents' = [levents EXCEPT
                              ![p] = Append(EventsRead(logFile), levent[p][1])]
            /\ lpc' = [lpc EXCEPT ![p] = "open_w"]
            /\ UNCHANGED <<levent, stderrLog>>
       ELSE LogHandler(p)
    /\ UNCHANGED <<vars, hookVars, extVars, logFile, flockHolder, logFaults, logHist>>

\* open(log_file, 'r') raises.
OpenReadFails(p) ==
    /\ lpc[p] = "read"
    /\ logFile.kind # "absent"
    /\ IOFails(p)
    /\ UNCHANGED <<vars, hookVars, extVars, logFile, flockHolder, logHist>>

\* open(log_file, 'w'): the file is created or truncated, before any lock.
OpenWrite(p) ==
    /\ lpc[p] = "open_w"
    /\ logFile' = FileOf("empty")
    /\ lpc' = [lpc EXCEPT ![p] = "flock"]
    /\ UNCHANGED <<vars, hookVars, extVars, flockHolder, levent, levents,
                   stderrLog, logFaults, logHist>>

\* open(log_file, 'w') raises.
OpenWriteFails(p) ==
    /\ lpc[p] = "open_w"
    /\ IOFails(p)
    /\ UNCHANGED <<vars, hookVars, extVars, logFile, flockHolder, logHist>>

\* fcntl.flock(f.fileno(), fcntl.LOCK_EX): waits while another holds it.
Flock(p) ==
    /\ lpc[p] = "flock"
    /\ flockHolder = 0
    /\ flockHolder' = p
    /\ lpc' = [lpc EXCEPT ![p] = "dump"]
    /\ UNCHANGED <<vars, hookVars, extVars, logFile, levent, levents, stderrLog,
                   logFaults, logHist>>

\* fcntl.flock raises; the `with` closes the file.
FlockFails(p) ==
    /\ lpc[p] = "flock"
    /\ IOFails(p)
    /\ UNCHANGED <<vars, hookVars, extVars, logFile, flockHolder, logHist>>

\* What the file holds after p wrote its text from offset 0.  On the empty
\* file p truncated, that is p's text.  When another process wrote since,
\* p's text replaces the other's, or, being shorter, leaves its tail behind.
Written(file, events) ==
    IF file.kind = "empty"
    THEN {JsonDump(events)}
    ELSE {JsonDump(events), FileOf("malformed")}

\* json.dump(events, f, indent=2); fcntl.flock(f.fileno(), fcntl.LOCK_UN);
\* end of the `with`; return.
Dump(p) ==
    /\ lpc[p] = "dump"
    /\ logFile' \in Written(logFile, levents[p])
    /\ flockHolder' = 0
    /\ LogReturn(p, "idle")
    /\ UNCHANGED <<vars, hookVars, extVars, stderrLog, logFaults, logHist>>

\* The write raises: nothing or a part of the text reached the file; the
\* `with` closes the file, which releases the lock.
DumpFails(p) ==
    /\ lpc[p] = "dump"
    /\ logFile' \in {logFile, FileOf("malformed")}
    /\ flockHolder' = 0
    /\ IOFails(p)
    /\ UNCHANGED <<vars, hookVars, extVars, logHist>>

\* clear_session_log(), run between hook invocations.
clear_session_log ==
    /\ pc = "off"
    /\ Idle
    /\ logFile' = Absent
    /\ logFile0' = Absent
    /\ logCalls' = <<>>
    /\ logFaults' = 0
    /\ logOverlap' = FALSE
    /\ UNCHANGED <<vars, hookVars, extVars, flockHolder, lpc, levent, levents,
                   stderrLog, ticks>>

NextLog ==
    \/ \E p \in Procs, d \in HookData("user_prompt_submit") : log_user_input(p, d)
    \/ \E p \in Procs, d \in HookData("pre_tool_use") : log_pre_tool_use(p, d)
    \/ \E p \in Procs, d \in HookData("post_tool_use") : log_post_tool_use(p, d)
    \/ \E p \in Procs, d \in HookData("session_stop") : log_session_stop(p, d)
    \/ \E p \in Procs : ReadLog(p) \/ OpenReadFails(p)
    \/ \E p \in Procs : OpenWrite(p) \/ OpenWriteFails(p)
    \/ \E p \in Procs : Flock(p) \/ FlockFails(p)
    \/ \E p \in Procs : Dump(p) \/ DumpFails(p)
    \/ clear_session_log

SpecLog == InitLog /\ [][NextLog]_allVars

-----------------------------------------------------------------------------
(* Properties of the session logger, checked under SpecLog *)

Range(seq) == {seq[i] : i \in 1..Len(seq)}

\* What a reader of the log (show_session_log) gets: no events when there is
\* no file, the stored list, or None when the file cannot be read as a list.
Shown(file) ==
    IF file.kind = "absent"
    THEN Some(<<>>)
    ELSE IF JsonLoad(file).exc = "none" /\ JsonLoad(file).isList
         THEN Some(JsonLoad(file).val)
         ELSE None

\* The calls made so far ran one after the other, none hit an I/O failure
\* and all have returned.
Sequential == Idle /\ ~logOverlap /\ logFaults = 0

\* C11: starting from an absent or cleared session_events.json, N calls of
\* log_session_event made one after the other leave a log that reads back as
\* exactly those N events, in call order, each with the event_type and data
\* of its call.
C11_SequentialCallsLogged ==
    (logFile0 = Absent /\ Sequential) => Shown(logFile) = Some(logCalls)

C11_Witness ==
    /\ logFile0 = Absent
    /\ Sequential
    /\ Len(logCalls) = 2
    /\ logCalls[1].event_type # logCalls[2].event_type
    /\ Shown(logFile) = Some(logCalls)

\* C12: when two calls of log_session_event overlap, both new events are in
\* the final log and no event stored before is lost.
C12_OverlappingCallsBothStored ==
    (Idle /\ logOverlap /\ logFaults = 0 /\ logFile0.kind \in {"absent", "list"})
        => /\ Shown(logFile) # None
           /\ Range(logFile0.val) \cup Range(logCalls)
                  \subseteq Range(Shown(logFile)[1])

\* C13: a file that cannot be parsed as JSON, or that parses to something
\* other than a list, is treated as empty: the call does not raise and the
\* log then holds exactly the new event.
C13_UnparsableTreatedAsEmpty ==
    (/\ logFile0.kind \in {"empty", "malformed", "undecodable", "object"}
     /\ Sequential
     /\ Len(logCalls) = 1)
        => Shown(logFile) = Some(logCalls)

\* The same for the files json.load rejects with JSONDecodeError and for the
\* values that are no list: for these the claim of C13 holds.
C13_TextTreatedAsEmpty ==
    (/\ logFile0.kind \in {"empty", "malformed", "object"}
     /\ Sequential
     /\ Len(logCalls) = 1)
        => Shown(logFile) = Some(logCalls)

C15_FrozenAfterStop ==
    (Sequential /\ Shown(logFile) # None)
        => \A i, j \in 1..Len(Shown(logFile)[1]) :
              (i < j /\ Shown(logFile)[1][i].event_type = "session_stop")
                  => Shown(logFile)[1][j].event_type = "session_stop"

\* C16: logging session-stop twice leaves the same stored sequence as
\* logging it once (so no two session_stop events are stored in a row).
C16_StopIdempotent ==
    (Sequential /\ Shown(logFile) # None)
        => \A i \in 1..(Len(Shown(logFile)[1]) - 1) :
              ~ /\ Shown(logFile)[1][i].event_type = "session_stop"
                /\ Shown(logFile)[1][i + 1].event_type = "session_stop"

\* C34: a log_session_event call that fails while writing (locking or
\* dumping, after the file was opened for writing) leaves the events stored
\* before the call in session_events.json.  (No other call is in progress.)
C34_WriteFailureKeepsLog ==
    [][ \A p \in Procs :
          (/\ lpc[p] \in {"flock", "dump"}
           /\ logFaults' > logFaults
           /\ lpc'[p] = "idle"
           /\ ~logOverlap)
            => \A i \in 1..(Len(levents[p]) - 1) :
                  /\ Shown(logFile') # None
                  /\ levents[p][i] \in Range(Shown(logFile')[1]) ]_allVars

-----------------------------------------------------------------------------
(***************************************************************************)
(* dynamic_agents/restart_hook.py: one run of main(), the SubagentStop     *)
(* hook.  A Python str is a sequence of pieces of text; the pieces are cut *)
(* so that every occurrence of a keyword starts and ends at a cut.         *)
(***************************************************************************)

\* Number of characters of a piece.
PieceLen(piece) ==
    CASE piece \in {" ", "{", "}", "'", ".", "5", "_"} -> 1
      [] piece \in {": ", ", ", "ok", "[]", "**"} -> 2
      [] piece \in {"sub", "for"} -> 3
      [] piece \in {"None", "math"} -> 4
      [] piece \in {"agent", "Agent", "AGENT", "_type", "meta-"} -> 5
      [] piece \in {"result"} -> 6
      [] piece \in {"created", "Created", "CREATED"} -> 7
      [] piece \in {"generated"} -> 9
      [] piece \in {"session_id", "calc-agent"} -> 10
      [] piece \in {"specialized"} -> 11
      [] piece \in {"Successfully"} -> 12
      [] piece \in {"general-purpose"} -> 15
      [] piece \in {"test-session-123"} -> 16
      [] piece \in {" for leetspeak conversion"} -> 25
      [] piece \in {"Task finished without any changes to the workspace"} -> 50

\* len(text)
RECURSIVE StrLen(_)
StrLen(text) ==
    IF text = <<>> THEN 0 ELSE PieceLen(Head(text)) + StrLen(Tail(text))

\* text.lower(): the pieces with capitals are the ones listed; lowering any
\* other piece of the model neither adds nor removes a keyword.
LowerPiece(piece) ==
    CASE piece \in {"Agent", "AGENT"} -> "agent"
      [] piece \in {"Created", "CREATED"} -> "created"
      [] piece = "Specialized" -> "specialized"
      [] piece = "For" -> "for"
      [] piece = "Math" -> "math"
      [] piece = "Text_Tool" -> "text_tool"
      [] piece = "Successfully" -> "successfully"
      [] OTHER -> piece
Lower(text) == [i \in 1..Len(text) |-> LowerPiece(text[i])]

\* `keyword in text`
Contains(keyword, text) ==
    \E i \in 1..(Len(text) - Len(keyword) + 1) :
        SubSeq(text, i, i + Len(keyword) - 1) = keyword

\* 'agent created', 'generated', 'specialized agent', 'subagent', 'created'
Keywords ==
    {<<"agent", " ", "created">>, <<"generated">>,
     <<"specialized", " ", "agent">>, <<"sub", "agent">>, <<"created">>}

\* LikelyCreated with a fault: every result counts as a created agent.
LikelyCreated_Always(text) == TRUE

\* LikelyCreated with a fault: the length of the result is not looked at.
LikelyCreated_KeywordsOnly(text) ==
    \E keyword \in Keywords : Contains(keyword, Lower(text))

\* likely_created
LikelyCreated(text) ==
    \/ \E keyword \in Keywords : Contains(keyword, Lower(text))
    \/ StrLen(text) > 50

\* JSON values as Python objects: the type, the text repr() gives (for a
\* str, the text itself) and, for a dict, the key-value pairs in order.
Str(text) == [type |-> "str", text |-> text, pairs |-> <<>>]
Int5 == [type |-> "int", text |-> <<"5">>, pairs |-> <<>>]
Null == [type |-> "NoneType", text |-> <<"None">>, pairs |-> <<>>]
List == [type |-> "list", text |-> <<"[]">>, pairs |-> <<>>]
Dict(pairs) == [type |-> "dict", text |-> <<>>, pairs |-> pairs]

\* The keys of a hook event, as text.
KeyText(key) ==
    CASE key = "subagent_type" -> <<"sub", "agent", "_type">>
      [] key = "result" -> <<"result">>
      [] key = "session_id" -> <<"session_id">>

\* repr(value) of a value inside a dict, and str(hook_data) of a dict.
Repr(value) ==
    IF value.type = "str" THEN <<"'">> \o value.text \o <<"'">> ELSE value.text
RECURSIVE ReprPairs(_)
ReprPairs(pairs) ==
    IF pairs = <<>>
    THEN <<>>
    ELSE <<"'">> \o KeyText(pairs[1][1]) \o <<"'", ": ">> \o Repr(pairs[1][2])
         \o (IF Len(pairs) > 1 THEN <<", ">> ELSE <<>>) \o ReprPairs(Tail(pairs))
StrOfDict(pairs) == <<"{">> \o ReprPairs(pairs) \o <<"}">>

\* hook_data.get(key, default)
Get(pairs, key, default) ==
    IF \E i \in 1..Len(pairs) : pairs[i][1] = key
    THEN pairs[CHOOSE i \in 1..Len(pairs) : pairs[i][1] = key][2]
    ELSE default

\* Result texts: the one of test_hook_directly.py (63 characters), a short
\* one with capitals, a short one without keyword, two without keyword of 50
\* and 51 characters, and one with the completion signal the meta-agent is
\* told to print.
TextCreated ==
    <<"Successfully", " ", "created", " ", "specialized", " ", "agent",
      " for leetspeak conversion">>
TextAgentCreated == <<"Agent", " ", "Created">>
TextOk == <<"ok">>
Text50 == <<"Task finished without any changes to the workspace">>
Text51 == Text50 \o <<".">>
TextSignal ==
    <<"**", "AGENT", "_", "CREATED", "**", ": ", "calc-agent", " ",
      "specialized", " ", "for", " ", "math">>

Results ==
    {Str(TextCreated), Str(TextAgentCreated), Str(TextOk), Str(Text50),
     Str(Text51), Str(TextSignal), Str(<<>>), Int5, Null}
SubagentTypes == {Str(<<"meta-", "agent">>), Str(<<"general-purpose">>)}
SessionIds == {Str(<<"test-session-123">>)}

\* A key that is absent, or present with one of the values.
OptPair(key, values) == {<<>>} \cup {<< <<key, v>> >> : v \in values}

\* The JSON objects the host may send, the JSON documents that are no
\* object, and what else standard input may hold.
HookEvents ==
    {Dict(a \o b \o c) : a \in OptPair("subagent_type", SubagentTypes),
                         b \in OptPair("result", Results),
                         c \in OptPair("session_id", SessionIds)}
Stdins ==
    {[kind |-> k, doc |-> Null] : k \in {"empty", "nonjson", "undecodable"}}
        \cup {[kind |-> "json", doc |-> v] :
                 v \in HookEvents \cup {List, Str(TextOk), Int5}}

\* What the generator may have left in the two directories: the meta-agent
\* definition alone or with one generated definition; no, one or two
\* generated tool servers.
AgentDefCounts == {1, 2}
GeneratedToolCounts == {0, 1, 2}

\* The restart script main() writes.
RestartScript_NoContinue ==
    [sleep |-> 2, cd |-> "working_dir", command |-> <<"claude">>,
     removesItself |-> TRUE]

RestartScript ==
    [sleep |-> 2, cd |-> "working_dir", command |-> <<"claude", "--continue">>,
     removesItself |-> TRUE]

InitHook ==
    /\ LauncherOff
    /\ LoggerOff
    /\ agentDefs \in AgentDefCounts
    /\ generatedTools \in GeneratedToolCounts
    /\ ProgsOff("none")
    /\ hpc = "load"
    /\ stdin \in Stdins
    /\ hook_data = None
    /\ task_result = None
    /\ scripts = <<>>
    /\ spawned = <<>>
    /\ hookExit = None
    /\ hookErr = "none"

\* `except Exception`: sys.exit(1)
HookExcept(at) ==
    /\ hookErr' = at
    /\ hookExit' = Some(SysExit(1))
    /\ hpc' = "done"

\* sys.exit(0): SystemExit is no Exception, the handler lets it pass.
HookExit0 ==
    /\ hookExit' = Some(SysExit(0))
    /\ hpc' = "done"
    /\ UNCHANGED hookErr

\* json.load(sys.stdin); on JSONDecodeError hook_data = {}
LoadStdin ==
    /\ hpc = "load"
    /\ CASE stdin.kind = "json" ->
               /\ hook_data' = Some(stdin.doc)
               /\ hpc' = "get"
               /\ UNCHANGED <<hookExit, hookErr>>
         [] stdin.kind \in {"empty", "nonjson"} ->
               /\ hook_data' = Some(Dict(<<>>))
               /\ hpc' = "get"
               /\ UNCHANGED <<hookExit, hookErr>>
         [] stdin.kind = "undecodable" ->
               /\ HookExcept("load")
               /\ UNCHANGED hook_data
    /\ UNCHANGED <<vars, logVars, extVars, stdin, task_result, scripts, spawned>>

\* hook_data.get('subagent_type', ''); hook_data.get('result', str(hook_data))
GetFields ==
    /\ hpc = "get"
    /\ IF hook_data[1].type = "dict"
       THEN /\ task_result' =
                  Some(Get(hook_data[1].pairs, "result",
                           Str(StrOfDict(hook_data[1].pairs))))
            /\ hpc' = "decide"
            /\ UNCHANGED <<hookExit, hookErr>>
       ELSE /\ HookExcept("get")
            /\ UNCHANGED task_result
    /\ UNCHANGED <<vars, logVars, extVars, stdin, hook_data, scripts, spawned>>

\* likely_created = ...; `if likely_created:` ... else sys.exit(0)
Decide ==
    /\ hpc = "decide"
    /\ IF task_result[1].type # "str"
       THEN HookExcept("lower")
       ELSE IF LikelyCreated(task_result[1].text)
            THEN /\ hpc' = "script"
                 /\ UNCHANGED <<hookExit, hookErr>>
            ELSE HookExit0
    /\ UNCHANGED <<vars, logVars, extVars, stdin, hook_data, task_result, scripts,
                   spawned>>

\* tempfile.NamedTemporaryFile(...), write, flush, close, os.chmod
CreateScript ==
    /\ hpc = "script"
    /\ scripts' = Append(scripts, RestartScript)
    /\ hpc' = "popen"
    /\ UNCHANGED <<vars, logVars, extVars, stdin, hook_data, task_result, spawned,
                   hookExit, hookErr>>

\* One of them raises: before the file exists, or after.
CreateScriptFails ==
    /\ hpc = "script"
    /\ scripts' \in {scripts, Append(scripts, RestartScript)}
    /\ HookExcept("script")
    /\ UNCHANGED <<vars, logVars, extVars, stdin, hook_data, task_result, spawned>>

\* subprocess.Popen([restart_script.name], ..., start_new_session=True);
\* sys.exit(0)
PopenScript ==
    /\ hpc = "popen"
    /\ spawned' = Append(spawned, [script |-> scripts[Len(scripts)],
                                   start_new_session |-> TRUE])
    /\ HookExit0
    /\ UNCHANGED <<vars, logVars, extVars, stdin, hook_data, task_result, scripts>>

\* subprocess.Popen raises.
PopenFails ==
    /\ hpc = "popen"
    /\ HookExcept("popen")
    /\ UNCHANGED <<vars, logVars, extVars, stdin, hook_data, task_result, scripts,
                   spawned>>

NextHook ==
    \/ LoadStdin \/ GetFields \/ Decide
    \/ CreateScript \/ CreateScriptFails
    \/ PopenScript \/ PopenFails

SpecHook == InitHook /\ [][NextHook]_allVars

-----------------------------------------------------------------------------
(* Properties of the restart hook, checked under SpecHook *)

\* The hook has exited, and neither creating nor spawning the restart script
\* failed.
HookDone == hpc = "done" /\ hookErr \notin {"script", "popen"}

\* Standard input held a JSON object (a hook event).
IsEvent == stdin.kind = "json" /\ stdin.doc.type = "dict"
HasKey(key) == \E i \in 1..Len(stdin.doc.pairs) : stdin.doc.pairs[i][1] = key
Field(key) == Get(stdin.doc.pairs, key, Null)

\* C17: main() exits with code 0 for every input; an internal failure (JSON
\* that is no object, a result that is no string, a failure to create or to
\* spawn the restart script) never yields a non-zero exit code.
C17_AlwaysExitsZero == hpc = "done" => hookExit = Some(0)

\* C18: with empty standard input the hook is a no-op: it creates no restart
\* script, schedules no restart and exits 0.
C18_EmptyStdinNoOp ==
    stdin.kind = "empty"
        => /\ scripts = <<>>
           /\ spawned = <<>>
           /\ hpc = "done" => hookExit = Some(0)

C18_Witness ==
    /\ stdin.kind = "empty"
    /\ hpc = "done"
    /\ hook_data = Some(Dict(<<>>))
    /\ hookExit = Some(0)

RestartingEvent ==
    IF HasKey("result")
    THEN Field("result") \in
             {Str(TextCreated), Str(TextAgentCreated), Str(Text51),
              Str(TextSignal)}
    ELSE HasKey("subagent_type")

C20_MetaAgentCreatedRelaunchesOnce ==
    (/\ IsEvent
     /\ HookDone
     /\ Field("subagent_type") = Str(<<"meta-", "agent">>)
     /\ Field("result") \in {Str(TextCreated), Str(TextAgentCreated)})
        => /\ Len(scripts) = 1
           /\ scripts[1].command = <<"claude", "--continue">>
           /\ Len(spawned) = 1
           /\ spawned[1].script = scripts[1]
           /\ spawned[1].start_new_session
           /\ hookExit = Some(0)

\* The event of test_hook_directly.py.
C20_Witness ==
    /\ stdin = [kind |-> "json",
                doc |-> Dict(<< <<"subagent_type", Str(<<"meta-", "agent">>)>>,
                                <<"result", Str(TextCreated)>>,
                                <<"session_id", Str(<<"test-session-123">>)>> >>)]
    /\ hpc = "done"
    /\ Len(spawned) = 1
    /\ hookExit = Some(0)

\* The text the hook looks at holds the structured completion marker
\* **AGENT_CREATED**, in any letter case.
HasMarker(text) ==
    Contains(<<"**", "agent", "_", "created", "**">>, Lower(text))
LacksMarker ==
    /\ task_result # None
    /\ task_result[1].type = "str"
    /\ ~HasMarker(task_result[1].text)

\* The two conditions of the file-existence fallback.
FallbackHolds == agentDefs > 1 /\ generatedTools >= 1

\* C21 (as claimed): for a sub-agent stop whose text lacks the structured
\* AGENT_CREATED marker, a restart is scheduled only if more than one
\* agent-definition file exists and at least one generated tool-server
\* file exists.
C21_RestartOnlyIfFallback ==
    (LacksMarker /\ spawned # <<>>) => FallbackHolds

\* C21 (amended): for a sub-agent stop whose text lacks the structured
\* AGENT_CREATED marker, the restart hook schedules a restart only if the
\* text (the result, or the printed form of the event when there is no
\* result) contains one of the hook's keywords, in any letter case, or is
\* longer than 50 characters; the two directories are not consulted.
C21_RestartOnlyIfKeywordOrLong ==
    (LacksMarker /\ spawned # <<>>)
        => \/ task_result[1].text \in {TextCreated, TextAgentCreated, Text51}
           \/ (~HasKey("result") /\ HasKey("subagent_type"))

C21_Witness ==
    /\ hpc = "done"
    /\ LacksMarker
    /\ task_result = Some(Str(TextAgentCreated))
    /\ agentDefs = 1 /\ generatedTools = 0
    /\ Len(spawned) = 1
    /\ hookExit = Some(0)

-----------------------------------------------------------------------------
(***************************************************************************)
(* Completion Detector: detect(responseText).  Its code is not part of the *)
(* sources at hand; it is modelled from its contract (a case-insensitive   *)
(* search for the first well-formed marker).  Texts are sequences of       *)
(* pieces as above; "\n" is the end of a line.                             *)
(***************************************************************************)

\* A hyphenated or underscored identifier.
IsIdentifier(piece) == piece \in {"calc-agent", "Text_Tool"}

\* A well-formed marker starts at piece i of text: the marker, a name,
\* "specialized for" and at least one piece of purpose, in any letter case.
MatchesAt(text, i) ==
    /\ i + 12 <= Len(text)
    /\ SubSeq(Lower(text), i, i + 5)
          = <<"**", "agent", "_", "created", "**", ": ">>
    /\ IsIdentifier(text[i + 6])
    /\ SubSeq(Lower(text), i + 7, i + 11)
          = <<" ", "specialized", " ", "for", " ">>
    /\ text[i + 12] # "\n"

\* The pieces of text from piece i up to the end of the line.
RECURSIVE ToEndOfLine(_, _)
ToEndOfLine(text, i) ==
    IF i > Len(text) \/ text[i] = "\n"
    THEN <<>>
    ELSE <<text[i]>> \o ToEndOfLine(text, i + 1)

Captured(text, i) ==
    [agentName |-> text[i + 6], purpose |-> ToEndOfLine(text, i + 12)]

\* detect with a fault: the last marker of the text is honoured.
detect_LastMatch(text) ==
    LET starts == {i \in 1..Len(text) : MatchesAt(text, i)} IN
    IF starts = {}
    THEN None
    ELSE Some(Captured(text, CHOOSE i \in starts : \A j \in starts : j <= i))

\* detect(responseText): the first match wins.
detect(text) ==
    LET starts == {i \in 1..Len(text) : MatchesAt(text, i)} IN
    IF starts = {}
    THEN None
    ELSE Some(Captured(text, CHOOSE i \in starts : \A j \in starts : i <= j))

\* A marker as the generator writes it, in one of two letter cases.
MarkerText(case, name, purpose) ==
    IF case = "upper"
    THEN <<"**", "AGENT", "_", "CREATED", "**", ": ", name, " ",
           "specialized", " ", "for", " ">> \o purpose
    ELSE <<"**", "Agent", "_", "created", "**", ": ", name, " ",
           "Specialized", " ", "For", " ">> \o purpose

\* A marker that lacks "specialized for".
Malformed == <<"**", "AGENT", "_", "CREATED", "**", ": ", "calc-agent", "\n">>

\* Response texts: one of three beginnings; then, when the text is well
\* formed, a marker in one of two letter cases with one of two names and
\* purposes; then the rest of the line and the lines after it, among them
\* a second marker on the same or on the next line.
DetectInputs ==
    LET beginnings == {<<>>, <<"Successfully", " ", "created", "\n">>, Malformed}
        cases == {"upper", "mixed"}
        names == {"calc-agent", "Text_Tool"}
        purposes == {<<"math">>, <<"Math", " ", "generated">>}
    IN
    [wellFormed : {TRUE}, beginning : beginnings, case : cases,
     name : names, purpose : purposes,
     sameLine : {<<>>, <<".">>,
                 <<" ">> \o MarkerText("upper", "Text_Tool", <<"math">>)},
     nextLines : {<<>>, <<"\n", "ok">>}
                    \cup {<<"\n">> \o MarkerText(c, n, u) :
                             c \in cases, n \in names, u \in purposes}]
      \cup
    [wellFormed : {FALSE}, beginning : beginnings, case : {"none"},
     name : {"none"}, purpose : {<<>>}, sameLine : {<<>>, <<"ok">>},
     nextLines : {<<>>, <<"\n", "ok">>}]

TextOf(in) ==
    in.beginning
      \o (IF in.wellFormed THEN MarkerText(in.case, in.name, in.purpose)
                           ELSE <<>>)
      \o in.sameLine \o in.nextLines

notDetect ==
    <<vars, logVars, hookVars, dirVars, polVars, resVars, stopVars, toolVars>>

InitDetect ==
    /\ LauncherOff
    /\ LoggerOff
    /\ HookOff
    /\ DirsOff
    /\ ProgsOff("detect")
    /\ dpc = "ready"
    /\ dinput \in DetectInputs
    /\ responseText = TextOf(dinput)
    /\ detected = None

\* One call of detect.
Detect ==
    /\ dpc = "ready"
    /\ detected' = detect(responseText)
    /\ dpc' = "done"
    /\ UNCHANGED <<notDetect, responseText, dinput>>

SpecDetect == InitDetect /\ [][Detect]_allVars

\* C22: for a response text containing a well-formed marker, in either
\* letter case and with any text before and after it, detect returns
\* exactly the name and the purpose (the text up to the end of the line),
\* as written, of the first occurrence; later occurrences are ignored.
C22_FirstMarkerCaptured ==
    (dpc = "done" /\ dinput.wellFormed)
        => detected = Some([agentName |-> dinput.name,
                            purpose |-> dinput.purpose \o dinput.sameLine])

C22_Witness ==
    /\ dpc = "done"
    /\ dinput.wellFormed
    /\ dinput.beginning = Malformed
    /\ dinput.case = "mixed"
    /\ dinput.nextLines = <<"\n">> \o MarkerText("upper", "Text_Tool", <<"math">>)
    /\ detected = Some([agentName |-> "calc-agent",
                        purpose |-> <<"Math", " ", "generated", ".">>])

-----------------------------------------------------------------------------
(***************************************************************************)
(* Pre-tool-use dispatcher: one run.  Its code is not part of the sources  *)
(* at hand; it is modelled from its contract: read one event, append it to *)
(* the Event Store (a failure is swallowed), apply the policy check.       *)
(***************************************************************************)

\* The distinguished exit code that blocks the tool call (0 allows it).
VETO == 2

\* The one tool the launcher leaves to the top-level agent
\* (--allowedTools Task).
DelegationTool == "Task"

\* What standard input may hold: nothing, or an event with a tool name ("":
\* none given) and with or without the delegation field.
PolicyStdins ==
    {[kind |-> "empty", tool_name |-> "", delegated |-> FALSE]}
        \cup [kind : {"json"}, tool_name : {"Task", "Bash", "Read", "Write", ""},
              delegated : BOOLEAN]

\* PolicyExit with a fault: the delegation field is not looked at.
PolicyExit_IgnoresDelegation(locked, delegated, tool_name) ==
    IF locked /\ tool_name # DelegationTool THEN VETO ELSE 0

\* The policy check: under the Lock Marker the top-level agent may call the
\* delegation tool only.
PolicyExit(locked, delegated, tool_name) ==
    IF locked /\ ~delegated /\ tool_name # DelegationTool THEN VETO ELSE 0

notPolicy ==
    <<vars, logVars, hookVars, dirVars, detVars, resVars, stopVars, toolVars>>

InitPolicy ==
    /\ LauncherOff
    /\ LoggerOff
    /\ HookOff
    /\ DirsOff
    /\ ProgsOff("policy")
    /\ ppc = "read"
    /\ pstdin \in PolicyStdins
    /\ plock \in BOOLEAN
    /\ plogged = FALSE
    /\ pexit = None

\* Read standard input; empty input is a no-op.
PolicyRead ==
    /\ ppc = "read"
    /\ IF pstdin.kind = "empty"
       THEN /\ pexit' = Some(0)
            /\ ppc' = "done"
       ELSE /\ ppc' = "append"
            /\ UNCHANGED pexit
    /\ UNCHANGED <<notPolicy, pstdin, plock, plogged>>

\* Append the event to the Event Store; a failure is swallowed.
PolicyAppend ==
    /\ ppc = "append"
    /\ plogged' \in BOOLEAN
    /\ ppc' = "check"
    /\ UNCHANGED <<notPolicy, pstdin, plock, pexit>>

\* The policy check and the exit.
PolicyCheck ==
    /\ ppc = "check"
    /\ pexit' = Some(PolicyExit(plock, pstdin.delegated, pstdin.tool_name))
    /\ ppc' = "done"
    /\ UNCHANGED <<notPolicy, pstdin, plock, plogged>>

NextPolicy == PolicyRead \/ PolicyAppend \/ PolicyCheck

SpecPolicy == InitPolicy /\ [][NextPolicy]_allVars

\* C23: a pre-tool-use hook run while the Lock Marker is present, with no
\* delegation field and a tool other than the delegation tool, exits with
\* the veto code; the same call with the delegation field set exits with
\* the allow code 0; while the Lock Marker is absent no call is vetoed.
C23_VetoUnderLock ==
    (ppc = "done" /\ pstdin.kind = "json")
        => /\ (plock /\ ~pstdin.delegated /\ pstdin.tool_name # DelegationTool)
                 => (pexit = Some(VETO) /\ VETO # 0)
           /\ (plock /\ pstdin.delegated /\ pstdin.tool_name # DelegationTool)
                 => pexit = Some(0)
           /\ ~plock => pexit = Some(0)

C23_Witness ==
    /\ ppc = "done"
    /\ plock
    /\ pstdin = [kind |-> "json", tool_name |-> "Bash", delegated |-> FALSE]
    /\ pexit = Some(VETO)

-----------------------------------------------------------------------------
(***************************************************************************)
(* Session Directory Resolver: resolve(sessionId).  Its code is not part   *)
(* of the sources at hand; it is modelled from its contract.  A directory  *)
(* is named session_<timestamp>_<id> ("stamped") or session_<id>           *)
(* ("legacy") and holds a metadata file with the session's status.         *)
(***************************************************************************)

KnownIds == {"s1", "s2"}
Directory(scheme, id, status) == [scheme |-> scheme, id |-> id, status |-> status]

\* The logs root holds at most one directory per naming scheme and ID.
Layouts ==
    {ds \in SUBSET {Directory(sc, id, st) :
                       sc \in {"stamped", "legacy"}, id \in KnownIds,
                       st \in {"active", "completed"}} :
        \A d, e \in ds : (d.scheme = e.scheme /\ d.id = e.id) => d = e}

Named(dirs, scheme, id) == {d \in dirs : d.scheme = scheme /\ d.id = id}

\* resolve with a fault: the legacy name is tried before the stamped one.
resolve_LegacyFirst(id, dirs) ==
    IF Named(dirs, "legacy", id) # {}
    THEN {Some(d) : d \in Named(dirs, "legacy", id)}
    ELSE IF Named(dirs, "stamped", id) # {}
    THEN {Some(d) : d \in Named(dirs, "stamped", id)}
    ELSE IF \E d \in dirs : d.status = "active"
    THEN {Some(d) : d \in {e \in dirs : e.status = "active"}}
    ELSE {None}

\* resolve(sessionId): what it may return.  The scan of step (3) returns the
\* first active directory it comes across, in the order of the listing.
resolve(id, dirs) ==
    IF Named(dirs, "stamped", id) # {}
    THEN {Some(d) : d \in Named(dirs, "stamped", id)}
    ELSE IF Named(dirs, "legacy", id) # {}
    THEN {Some(d) : d \in Named(dirs, "legacy", id)}
    ELSE IF \E d \in dirs : d.status = "active"
    THEN {Some(d) : d \in {e \in dirs : e.status = "active"}}
    ELSE {None}

notResolve ==
    <<vars, logVars, hookVars, dirVars, detVars, polVars, stopVars, toolVars>>

InitResolve ==
    /\ LauncherOff
    /\ LoggerOff
    /\ HookOff
    /\ DirsOff
    /\ ProgsOff("resolve")
    /\ rpc = "ready"
    /\ sessionDirs \in Layouts
    /\ sessionId \in KnownIds \cup {"s3"}
    /\ resolved = None

\* One call of resolve.
Resolve ==
    /\ rpc = "ready"
    /\ resolved' \in resolve(sessionId, sessionDirs)
    /\ rpc' = "done"
    /\ UNCHANGED <<notResolve, sessionDirs, sessionId>>

SpecResolve == InitResolve /\ [][Resolve]_allVars

\* C25: resolve(sessionId) returns the timestamped directory for that ID if
\* one exists, otherwise the legacy bare-ID directory if it exists,
\* otherwise a directory whose persisted status is active; it returns "not
\* found" only when all three steps fail.
C25_ResolutionOrder ==
    rpc = "done" =>
        LET stamped == {d \in sessionDirs : d.scheme = "stamped" /\ d.id = sessionId}
            legacy == {d \in sessionDirs : d.scheme = "legacy" /\ d.id = sessionId}
            active == {d \in sessionDirs : d.status = "active"}
        IN  /\ stamped # {} => (resolved # None /\ resolved[1] \in stamped)
            /\ (stamped = {} /\ legacy # {})
                  => (resolved # None /\ resolved[1] \in legacy)
            /\ (stamped = {} /\ legacy = {} /\ active # {})
                  => (resolved # None /\ resolved[1] \in active)
            /\ resolved = None <=> (stamped = {} /\ legacy = {} /\ active = {})

\* Both names exist for the ID, the legacy one active, the stamped one not.
C25_Witness ==
    /\ rpc = "done"
    /\ sessionId = "s1"
    /\ Directory("legacy", "s1", "active") \in sessionDirs
    /\ resolved = Some(Directory("stamped", "s1", "completed"))

-----------------------------------------------------------------------------
(***************************************************************************)
(* Sub-agent-stop dispatcher and Restart Coordinator: one run.  Their code *)
(* is not part of the sources at hand; they are modelled from their        *)
(* contract.  The registration step is register_mcp_servers of             *)
(* dynamic_agents/register_mcp.py.                                         *)
(***************************************************************************)

\* The dispatcher polls the Event Store up to N times.
N == 3

\* The files glob("*.py") finds in dynamic_agents/generated_mcp, and how
\* `claude mcp add` ends for a server: return code 0, "already exists" on
\* stderr, another failure, or subprocess.run raising (no `claude` binary).
ServerNames == <<"calculator_server", "leetspeak_server">>
IsServerFile(f) == f # "__init__"

\* register_mcp_servers(): "True", "False", or "raised" when subprocess.run
\* raises (nothing in the function catches it).
register_mcp_servers(dirExists, server_files, run) ==
    IF ~dirExists THEN "False"
    ELSE IF server_files = <<>> THEN "False"
    ELSE LET servers == SelectSeq(server_files, IsServerFile) IN
         IF servers = <<>> THEN "False"
         ELSE IF \E i \in 1..Len(servers) : run[servers[i]] = "raises"
         THEN "raised"
         ELSE IF \E i \in 1..Len(servers) : run[servers[i]] \in {"ok", "already"}
         THEN "True"
         ELSE "False"

\* The servers subprocess.run was called for, in order: every server file,
\* or those up to the first for which subprocess.run raises.
Attempted(dirExists, server_files, run) ==
    IF ~dirExists THEN <<>>
    ELSE LET servers == SelectSeq(server_files, IsServerFile)
             raising == {i \in 1..Len(servers) : run[servers[i]] = "raises"}
         IN  IF raising = {} THEN servers
             ELSE SubSeq(servers, 1,
                         CHOOSE i \in raising : \A j \in raising : i <= j)

\* AfterRegistration with a fault: an exception of the registration step
\* ends the coordinator's work.
AfterRegistration_RaiseAborts(outcome) ==
    IF outcome = "raised" THEN "IDLE" ELSE "REGISTRATION_ATTEMPTED"

\* The coordinator's state after the registration step: failures are logged
\* and never block the transition.
AfterRegistration(outcome) == "REGISTRATION_ATTEMPTED"

notStop ==
    <<vars, logVars, hookVars, detVars, polVars, resVars, toolVars>>

InitStop ==
    /\ LauncherOff
    /\ LoggerOff
    /\ HookOff
    /\ ProgsOff("stop")
    /\ agentDefs \in AgentDefCounts
    /\ generatedTools \in GeneratedToolCounts
    /\ spc = "poll"
    /\ srecord \in {None} \cup {Some([marker |-> m]) : m \in BOOLEAN}
    /\ polls = 0
    /\ sdata = None
    /\ cstate = "IDLE"
    /\ registration = "none"
    /\ regcall = None
    /\ smarker \in BOOLEAN
    /\ sexit = None

\* The post-tool-use hook writes its record while the dispatcher waits.
PostToolUseWrites ==
    /\ spc = "poll"
    /\ srecord = None
    /\ \E m \in BOOLEAN : srecord' = Some([marker |-> m])
    /\ UNCHANGED <<notStop, dirVars, spc, polls, sdata, cstate, registration, regcall,
                   smarker, sexit>>

\* StopPoll with a fault: the dispatcher polls until the record is there.
StopPoll_NoLimit ==
    /\ spc = "poll"
    /\ polls' = polls + 1
    /\ IF srecord # None
       THEN /\ sdata' = srecord
            /\ spc' = "detect"
       ELSE UNCHANGED <<sdata, spc>>
    /\ UNCHANGED <<notStop, dirVars, srecord, cstate, registration, regcall, smarker,
                   sexit>>

\* One poll of the Event Store: the record is used when it is there; after
\* N polls without it the data counts as absent; otherwise the dispatcher
\* sleeps and polls again.
StopPoll ==
    /\ spc = "poll"
    /\ polls < N
    /\ polls' = polls + 1
    /\ IF srecord # None
       THEN /\ sdata' = srecord
            /\ spc' = "detect"
       ELSE IF polls + 1 = N
       THEN /\ sdata' = None
            /\ spc' = "detect"
       ELSE UNCHANGED <<sdata, spc>>
    /\ UNCHANGED <<notStop, dirVars, srecord, cstate, registration, regcall, smarker,
                   sexit>>

\* IDLE -> COMPLETION_DETECTED: the marker in the text, or the fallback.
StopDetect ==
    /\ spc = "detect"
    /\ IF (sdata # None /\ sdata[1].marker) \/ FallbackHolds
       THEN /\ cstate' = "COMPLETION_DETECTED"
            /\ spc' = "register"
            /\ UNCHANGED sexit
       ELSE /\ sexit' = Some(0)
            /\ spc' = "done"
            /\ UNCHANGED cstate
    /\ UNCHANGED <<notStop, dirVars, srecord, polls, sdata, registration, regcall,
                   smarker>>

\* COMPLETION_DETECTED -> REGISTRATION_ATTEMPTED
StopRegister ==
    /\ spc = "register"
    /\ \E dirExists \in BOOLEAN, withInit \in BOOLEAN,
          run \in [{ServerNames[1], ServerNames[2]}
                     -> {"ok", "already", "failed", "raises"}] :
          /\ generatedTools > 0 => dirExists
          /\ LET server_files ==
                    (IF withInit /\ dirExists THEN <<"__init__">> ELSE <<>>)
                        \o SubSeq(ServerNames, 1, generatedTools)
             IN  /\ registration' =
                        register_mcp_servers(dirExists, server_files, run)
                 /\ regcall' =
                        Some([dirExists |-> dirExists,
                              server_files |-> server_files,
                              run |-> run,
                              attempted |-> Attempted(dirExists, server_files, run)])
    /\ cstate' = AfterRegistration(registration')
    /\ spc' = "signal"
    /\ UNCHANGED <<notStop, dirVars, srecord, polls, sdata, smarker, sexit>>

\* REGISTRATION_ATTEMPTED -> RESTART_SIGNALED: create the Restart Marker (a
\* no-op when it exists), then exit 0.
StopSignal ==
    /\ spc = "signal"
    /\ IF cstate = "REGISTRATION_ATTEMPTED"
       THEN /\ smarker' = TRUE
            /\ cstate' = "RESTART_SIGNALED"
       ELSE UNCHANGED <<smarker, cstate>>
    /\ sexit' = Some(0)
    /\ spc' = "done"
    /\ UNCHANGED <<notStop, dirVars, srecord, polls, sdata, registration, regcall>>

NextStop ==
    PostToolUseWrites \/ StopPoll \/ StopDetect \/ StopRegister \/ StopSignal

SpecStop == InitStop /\ [][NextStop]_allVars

\* C24: a failure of the registration step never prevents the restart from
\* being signalled: once completion is detected the coordinator is never
\* stuck, goes through the registration step whatever its outcome (True,
\* False or an exception) and ends in RESTART_SIGNALED with the Restart
\* Marker present.
C24_RegistrationNeverBlocksRestart ==
    /\ cstate \in {"COMPLETION_DETECTED", "REGISTRATION_ATTEMPTED"}
          => (spc \in {"register", "signal"} /\ ENABLED NextStop)
    /\ (spc = "done" /\ registration # "none")
          => (cstate = "RESTART_SIGNALED" /\ smarker)
    /\ (spc = "done" /\ cstate = "IDLE") => registration = "none"

C24_Witness ==
    /\ spc = "done"
    /\ registration = "raised"
    /\ cstate = "RESTART_SIGNALED"
    /\ smarker
    /\ sexit = Some(0)

\* C26: the wait for the post-tool-use record is bounded: the Event Store is
\* polled at most N times; a poll that finds the record uses it; after N
\* polls without it the dispatcher goes on with the data treated as absent,
\* and in either case it neither blocks nor fails.
C26_BoundedWait ==
    /\ [](polls <= N)
    /\ [][(spc = "poll" /\ polls' # polls)
             => /\ polls' = polls + 1
                /\ srecord # None => (sdata' = srecord /\ spc' = "detect")
                /\ (srecord = None /\ polls' = N)
                      => (sdata' = None /\ spc' = "detect")
                /\ (srecord = None /\ polls' < N) => spc' = "poll"]_allVars
    /\ [](spc = "poll" => ENABLED StopPoll)
    /\ [](spc = "done" => sexit = Some(0))

\* The record never appears: N polls, then the run goes on without it.
C26_Witness ==
    /\ spc = "done"
    /\ polls = N
    /\ srecord = None
    /\ sdata = None
    /\ cstate = "RESTART_SIGNALED"
    /\ sexit = Some(0)

\* C35: register_mcp_servers attempts to register every discovered server
\* file even when an earlier registration fails, counts a server reported
\* as "already exists" as registered, and returns True if and only if at
\* least one server was registered or already registered; it returns False
\* when the directory is missing or holds no server files.
C35_RegistersEveryServer ==
    regcall # None =>
        LET c == regcall[1]
            servers == SelectSeq(c.server_files, IsServerFile)
            registered == {i \in 1..Len(servers) :
                              c.run[servers[i]] \in {"ok", "already"}}
        IN  /\ c.dirExists => c.attempted = servers
            /\ registration = "True" <=> (c.dirExists /\ registered # {})
            /\ (~c.dirExists \/ servers = <<>>) => registration = "False"
            /\ registration \in {"True", "False"}

-----------------------------------------------------------------------------
(***************************************************************************)
(* dynamic_agents/mcp_server.py: the tool server (ToolRegistry and the     *)
(* list_tools and call_tool handlers), with the tool files that            *)
(* ToolManager of dynamic_agents/tool_manager.py creates and removes.      *)
(***************************************************************************)

\* The file system's clock goes up to this value.
MaxClock == 2

\* TOOLS_DIR and TOOL_MODULES_DIR
ToolDirs == {"generated_tools", "tool_modules"}

\* The names tools are created under.
Stems == {"data_analyzer", "word_counter"}

\* tool_def.get('name', stem): ToolManager writes spec.name into the file
\* it names after spec.name.
NameOf(dir, stem) == stem

\* The DynamicTool built from a file: a JSON definition carries its
\* implementation, a module its module_path.
DynamicTool(dir, stem, mtime) ==
    [name |-> NameOf(dir, stem),
     type |-> IF dir = "generated_tools" THEN "json" ELSE "module",
     module_path |-> IF dir = "tool_modules" THEN stem ELSE "",
     last_modified |-> mtime]

\* `if tool_name in self.tools and self.tools[tool_name].last_modified >=
\* mtime: continue`, with the file's stem as tool_name.
Skipped(reg, stem, mtime) ==
    reg[stem] # None /\ reg[stem][1].last_modified >= mtime

\* One pass of the loop body of _load_json_tools / _load_module_tools.
LoadFile(reg, fs, dir, stem) ==
    IF fs[dir][stem] = None \/ Skipped(reg, stem, fs[dir][stem][1])
    THEN reg
    ELSE [reg EXCEPT ![NameOf(dir, stem)] =
              Some(DynamicTool(dir, stem, fs[dir][stem][1]))]

\* The loop over glob("*.json") or glob("*.py").
RECURSIVE LoadDir(_, _, _, _)
LoadDir(reg, fs, dir, stems) ==
    IF stems = {}
    THEN reg
    ELSE LET stem == CHOOSE st \in stems : TRUE IN
         LoadDir(LoadFile(reg, fs, dir, stem), fs, dir, stems \ {stem})

\* scan_and_load_tools with a fault: the modules directory is not scanned.
scan_and_load_tools_JsonOnly(reg, fs) ==
    LoadDir(reg, fs, "generated_tools", Stems)

\* scan_and_load_tools: the JSON definitions, then the modules.
scan_and_load_tools(reg, fs) ==
    LoadDir(LoadDir(reg, fs, "generated_tools", Stems), fs, "tool_modules",
            Stems)

\* The modules a scan imports (sys.modules[module_name] = module).
Imported(reg, fs) ==
    LET afterJson == LoadDir(reg, fs, "generated_tools", Stems) IN
    {stem \in Stems :
        /\ fs["tool_modules"][stem] # None
        /\ ~Skipped(afterJson, stem, fs["tool_modules"][stem][1])}

\* _execute_tool, as call_tool reports it.
ExecuteTool(tool, modules) ==
    IF tool.type = "module"
    THEN IF tool.module_path \in modules THEN "executed" ELSE "error"
    ELSE "executed"

notTools == <<vars, logVars, hookVars, dirVars, detVars, polVars, resVars,
              stopVars>>

InitTools ==
    /\ LauncherOff
    /\ LoggerOff
    /\ HookOff
    /\ DirsOff
    /\ ProgsOff("tools")
    /\ tpc = "stopped"
    /\ toolFiles = [dir \in ToolDirs |-> [stem \in Stems |-> None]]
    /\ clock = 0
    /\ tools = [stem \in Stems |-> None]
    /\ sysModules = {}
    /\ response = None
    /\ added = {}

\* DynamicToolServer.run: the initial scan.
StartServer ==
    /\ tpc = "stopped"
    /\ tools' = scan_and_load_tools(tools, toolFiles)
    /\ sysModules' = sysModules \cup Imported(tools, toolFiles)
    /\ tpc' = "running"
    /\ UNCHANGED <<notTools, toolFiles, clock, response, added>>

\* The list_tools handler.
list_tools ==
    /\ tpc = "running"
    /\ tools' = scan_and_load_tools(tools, toolFiles)
    /\ sysModules' = sysModules \cup Imported(tools, toolFiles)
    /\ response' = Some([kind |-> "list",
                         names |-> {n \in Stems : tools'[n] # None},
                         outcome |-> ""])
    /\ UNCHANGED <<notTools, tpc, toolFiles, clock, added>>

\* The call_tool handler.
call_tool(name) ==
    /\ tpc = "running"
    /\ tools' = scan_and_load_tools(tools, toolFiles)
    /\ sysModules' = sysModules \cup Imported(tools, toolFiles)
    /\ response' = Some([kind |-> "call",
                         names |-> {name},
                         outcome |-> IF tools'[name] = None
                                     THEN "not found"
                                     ELSE ExecuteTool(tools'[name][1],
                                                      sysModules')])
    /\ UNCHANGED <<notTools, tpc, toolFiles, clock, added>>

\* ToolManager.create_tool: writes <name>.json or <name>.py.
create_tool(dir, name) ==
    /\ tpc \in {"stopped", "running"}
    /\ toolFiles' = [toolFiles EXCEPT ![dir][name] = Some(clock)]
    /\ added' = IF tpc = "running" THEN added \cup {<<dir, name>>} ELSE added
    /\ response' = None
    /\ UNCHANGED <<notTools, tpc, clock, tools, sysModules>>

\* ToolManager.remove_tool: unlinks <name>.json and <name>.py.
remove_tool(name) ==
    /\ tpc \in {"stopped", "running"}
    /\ \E dir \in ToolDirs : toolFiles[dir][name] # None
    /\ toolFiles' = [dir \in ToolDirs |-> [toolFiles[dir] EXCEPT ![name] = None]]
    /\ added' = {f \in added : f[2] # name}
    /\ response' = None
    /\ UNCHANGED <<notTools, tpc, clock, tools, sysModules>>

\* Time passes.
Tick ==
    /\ tpc \in {"stopped", "running"}
    /\ clock < MaxClock
    /\ clock' = clock + 1
    /\ UNCHANGED <<notTools, tpc, toolFiles, tools, sysModules, response,
                   added>>

NextTools ==
    \/ StartServer
    \/ list_tools
    \/ \E name \in Stems : call_tool(name)
    \/ \E dir \in ToolDirs, name \in Stems : create_tool(dir, name)
    \/ \E name \in Stems : remove_tool(name)
    \/ Tick

SpecTools == InitTools /\ [][NextTools]_allVars

\* C27: a tool definition file added to the tools directory or the modules
\* directory while the server is running is listed by the next list_tools
\* request, and the next call_tool request for it executes it (no restart
\* of the server in between).
C27_AddedToolServedWithoutRestart ==
    response # None =>
        \A f \in added :
            /\ response[1].kind = "list" => NameOf(f[1], f[2]) \in response[1].names
            /\ (response[1].kind = "call"
                    /\ response[1].names = {NameOf(f[1], f[2])})
                  => response[1].outcome = "executed"

\* A module added while the server runs, called at once.
C27_Witness ==
    /\ tpc = "running"
    /\ added = {<<"tool_modules", "word_counter">>}
    /\ response = Some([kind |-> "call", names |-> {"word_counter"},
                        outcome |-> "executed"])
    /\ toolFiles["generated_tools"]["word_counter"] # None

\* C37: after any scan of the ToolRegistry, a tool whose definition file has
\* been deleted is no longer listed by list_tools nor returned by get_tool:
\* the registry holds exactly the tools defined by files currently present.
C37_RegistryHoldsPresentFilesOnly ==
    response # None =>
        LET files == {f \in ToolDirs \X Stems : toolFiles[f[1]][f[2]] # None}
            present == {NameOf(f[1], f[2]) : f \in files}
        IN  /\ response[1].kind = "list" => response[1].names = present
            /\ (response[1].kind = "call" /\ response[1].names \cap present = {})
                  => response[1].outcome = "not found"

====
